---------------------------- MODULE Spec2Model ----------------------------
(***************************************************************************)
(* State-machine model of the GuarranteeBettor agent pipeline:             *)
(*   EventBus, RiskState, CircuitBreaker, Oracle, Watcher / KalshiWSClient,*)
(*   Brain, Sniper and Shield.                                             *)
(*                                                                         *)
(* Conventions                                                             *)
(*   - an optional value (Python None or a value) is a sequence of length  *)
(*     0 or 1: <<>> is None, <<v>> is v;                                   *)
(*   - an asyncio.Queue is a sequence, head first;                         *)
(*   - every action is one run of a handler between two suspension points  *)
(*     of the single-threaded asyncio scheduler.                           *)
(***************************************************************************)
EXTENDS Integers, Sequences, FiniteSets, TLC

VARIABLES
    \* ---- EventBus (src/bus/event_bus.py) ----
    game_events,        \* asyncio.Queue(maxsize=50)
    market_updates,     \* asyncio.Queue(maxsize=200)
    trade_signals,      \* asyncio.Queue(maxsize=10)
    fill_reports,       \* asyncio.Queue(maxsize=100)
    bus_hist,           \* history: per channel, what was enqueued / delivered
    \* ---- CircuitBreaker (src/utils/circuit_breaker.py) ----
    breaker,            \* [state, reason, failure_count]
    breaker_hist,       \* history: last operation, failures since last success
    \* ---- RiskState and Shield (src/models/state.py, src/agents/shield.py) ----
    risk,               \* RiskState dataclass
    game_trade_count,   \* ShieldAgent._game_trade_count
    risk_hist,          \* history: fill reports injected, settlements applied
    \* ---- Sports feed clients and Oracle (src/sports, src/agents/oracle.py) ----
    feed_last,          \* per feed client: _last_scores, game_id -> (home, away)
    feed_loop,          \* per feed client: stream()'s consecutive_errors, the
                        \* warnings it logged, and its latest sleep
    seen,               \* OracleAgent._seen, game_id -> (home, away)
    oracle_hist,        \* history: polls made, triples handed to the bus,
                        \* the status each game had in its latest report,
                        \* what each feed client emitted
    poll_log,           \* history: the raw games the feed clients were given
    \* ---- KalshiWSClient and Watcher (src/kalshi/ws_client.py, src/agents/watcher.py) ----
    ws,                 \* the client's fields and the position of its run() loop
    exchange_ws,        \* the exchange's end: is the socket open, what it subscribed
    latest,             \* WatcherAgent._latest, ticker -> MarketUpdate
    ws_hist,            \* history: frames handled, gap warnings, commands sent
    \* ---- BrainAgent, its maps and gate, SniperAgent (src/agents/brain.py, sniper.py) ----
    brain,              \* BrainAgent's fields and the position of _process_event
    threshold_map,      \* ThresholdMap: game_id -> list of ThresholdEntry
    moneyline_map,      \* MoneylineMap: game_id -> list of MoneylineEntry
    gate,               \* CrunchTimeGate._active
    cfg,                \* BrainAgent's constructor arguments
    sniper,             \* SniperAgent: idle, or awaiting place_order for a signal
    sniper_hist,        \* history: signals consumed, orders sent, reports published
    signal_log,         \* history: every publish_trade_signal call Brain made
    build,              \* one call of a ThresholdMap entry builder and its result
    sched,              \* main.run()'s position and the state of each asyncio task
    \* ---- time.monotonic() ----
    now                 \* the monotonic clock, in seconds

busVars     == <<game_events, market_updates, trade_signals, fill_reports>>
breakerVars == <<breaker, breaker_hist>>
riskVars    == <<risk, game_trade_count>>
riskAll     == <<riskVars, risk_hist>>

oracleVars  == <<feed_last, feed_loop, seen, oracle_hist, poll_log>>

wsVars      == <<ws, exchange_ws, latest, ws_hist>>

pipeVars    == <<brain, threshold_map, moneyline_map, gate, cfg, sniper, sniper_hist,
                 signal_log, build, sched>>

vars == <<busVars, bus_hist, breakerVars, riskAll, oracleVars, wsVars, pipeVars, now>>

-----------------------------------------------------------------------------
(* Generic helpers *)

Min(a, b) == IF a <= b THEN a ELSE b
Max(a, b) == IF a >= b THEN a ELSE b

Range(s) == {s[i] : i \in 1..Len(s)}

-----------------------------------------------------------------------------
(***************************************************************************)
(* EventBus                                                                *)
(***************************************************************************)

GAME_EVENTS_MAXSIZE    == 50
MARKET_UPDATES_MAXSIZE == 200
TRADE_SIGNALS_MAXSIZE  == 10
FILL_REPORTS_MAXSIZE   == 100

Channels == {"game_events", "market_updates", "trade_signals", "fill_reports"}

maxsize(ch) ==
    CASE ch = "game_events"    -> GAME_EVENTS_MAXSIZE
      [] ch = "market_updates" -> MARKET_UPDATES_MAXSIZE
      [] ch = "trade_signals"  -> TRADE_SIGNALS_MAXSIZE
      [] ch = "fill_reports"   -> FILL_REPORTS_MAXSIZE

\* asyncio.Queue.full(): qsize() >= maxsize
full(q, cap) == Len(q) >= cap

\* A faulty put_nowait that enqueues at the head of the queue.
put_nowait_front(q, cap, item) ==
    IF full(q, cap) THEN q ELSE <<item>> \o q

\* A faulty put_nowait that enqueues without looking at maxsize.
put_nowait_unbounded(q, cap, item) == Append(q, item)

\* Queue.put_nowait inside try/except QueueFull: on a full queue the
\* exception is caught and logged, the queue is left as it was.
put_nowait(q, cap, item) ==
    IF full(q, cap) THEN q ELSE Append(q, item)

publish_game_event(event) ==
    game_events' = put_nowait(game_events, GAME_EVENTS_MAXSIZE, event)

publish_market_update(update) ==
    market_updates' = put_nowait(market_updates, MARKET_UPDATES_MAXSIZE, update)

publish_trade_signal(signal) ==
    trade_signals' = put_nowait(trade_signals, TRADE_SIGNALS_MAXSIZE, signal)

publish_fill_report(report) ==
    fill_reports' = put_nowait(fill_reports, FILL_REPORTS_MAXSIZE, report)

\* the queue a channel name stands for
chan(ch) ==
    CASE ch = "game_events"    -> game_events
      [] ch = "market_updates" -> market_updates
      [] ch = "trade_signals"  -> trade_signals
      [] ch = "fill_reports"   -> fill_reports


InitBus ==
    /\ game_events = <<>>
    /\ market_updates = <<>>
    /\ trade_signals = <<>>
    /\ fill_reports = <<>>
    /\ bus_hist = [accepted  |-> [ch \in Channels |-> <<>>],
                   delivered |-> [ch \in Channels |-> <<>>],
                   published |-> [ch \in Channels |-> 0]]

\* How many publishes beyond a channel's capacity the bus harness makes.
BusExtra == 2

\* The harness exercises one channel in a run: the channels are independent
\* queues, so a second one is only touched while the others are unused.
OthersUntouched(ch) ==
    \A d \in Channels \ {ch} : bus_hist.published[d] = 0

PublishOn(ch, item) ==
    CASE ch = "game_events" ->
            publish_game_event(item)
            /\ UNCHANGED <<market_updates, trade_signals, fill_reports>>
      [] ch = "market_updates" ->
            publish_market_update(item)
            /\ UNCHANGED <<game_events, trade_signals, fill_reports>>
      [] ch = "trade_signals" ->
            publish_trade_signal(item)
            /\ UNCHANGED <<game_events, market_updates, fill_reports>>
      [] ch = "fill_reports" ->
            publish_fill_report(item)
            /\ UNCHANGED <<game_events, market_updates, trade_signals>>

\* A producer publishes the next event (events are numbered in publish order).
\* The history records it as accepted exactly when the channel was not full.
BusPublish(ch) ==
    /\ OthersUntouched(ch)
    /\ bus_hist.published[ch] < maxsize(ch) + BusExtra
    /\ LET item == bus_hist.published[ch] + 1 IN
       /\ PublishOn(ch, item)
       /\ bus_hist' =
            [bus_hist EXCEPT
               !.published[ch] = item,
               !.accepted[ch] = IF full(chan(ch), maxsize(ch))
                                THEN @ ELSE Append(@, item)]

\* await queue.get(): the consumer resumes with the head of a non-empty queue.
GetFrom(ch) ==
    CASE ch = "game_events" ->
            game_events' = Tail(game_events)
            /\ UNCHANGED <<market_updates, trade_signals, fill_reports>>
      [] ch = "market_updates" ->
            market_updates' = Tail(market_updates)
            /\ UNCHANGED <<game_events, trade_signals, fill_reports>>
      [] ch = "trade_signals" ->
            trade_signals' = Tail(trade_signals)
            /\ UNCHANGED <<game_events, market_updates, fill_reports>>
      [] ch = "fill_reports" ->
            fill_reports' = Tail(fill_reports)
            /\ UNCHANGED <<game_events, market_updates, trade_signals>>

BusGet(ch) ==
    /\ Len(chan(ch)) > 0
    /\ GetFrom(ch)
    /\ bus_hist' = [bus_hist EXCEPT
                      !.delivered[ch] = Append(@, Head(chan(ch)))]

-----------------------------------------------------------------------------
(***************************************************************************)
(* CircuitBreaker                                                          *)
(***************************************************************************)

\* CircuitBreaker.__init__(name, failure_threshold=3); Sniper passes 3 too.
FAILURE_THRESHOLD == 3

CircuitBreaker(threshold) ==
    [state |-> "CLOSED", reason |-> <<>>, opened_at_s |-> 0,
     failure_count |-> 0, failure_threshold |-> threshold]

InitBreaker ==
    /\ breaker = CircuitBreaker(FAILURE_THRESHOLD)
    /\ breaker_hist = [op |-> "init", fails |-> 0, calls |-> 0]

\* A faulty is_open that never reports the breaker open.
is_open_never(b) == FALSE

is_closed(b) == b.state = "CLOSED"
is_open(b)   == b.state = "OPEN"

trip(b, reason) ==
    [b EXCEPT !.state = "OPEN", !.reason = <<reason>>, !.opened_at_s = now]

reset(b) == [b EXCEPT !.state = "CLOSED", !.reason = <<>>, !.failure_count = 0]

\* A faulty record_failure that trips one failure late.
record_failure_late(b, reason) ==
    LET c == [b EXCEPT !.failure_count = @ + 1] IN
    IF c.failure_count > c.failure_threshold THEN trip(c, reason) ELSE c

record_failure(b, reason) ==
    LET c == [b EXCEPT !.failure_count = @ + 1] IN
    IF c.failure_count >= c.failure_threshold THEN trip(c, reason) ELSE c

\* A faulty record_success that also closes the breaker.
record_success_closing(b) == [b EXCEPT !.failure_count = 0, !.state = "CLOSED"]

record_success(b) == [b EXCEPT !.failure_count = 0]

\* How many operations the breaker harness calls in a run.
MaxBreakerCalls == 6

Reasons == {"timeout", "http_500"}

\* The history counts the calls, and the record_failure calls since the last
\* record_success or reset.
BreakerCalled(op, fails) ==
    /\ breaker_hist.calls < MaxBreakerCalls
    /\ breaker_hist' = [op |-> op, fails |-> fails,
                        calls |-> breaker_hist.calls + 1]

BreakerRecordFailure ==
    /\ \E r \in Reasons : breaker' = record_failure(breaker, r)
    /\ BreakerCalled("record_failure", breaker_hist.fails + 1)

BreakerRecordSuccess ==
    /\ breaker' = record_success(breaker)
    /\ BreakerCalled("record_success", 0)

BreakerReset ==
    /\ breaker' = reset(breaker)
    /\ BreakerCalled("reset", 0)

BreakerTrip ==
    /\ \E r \in Reasons : breaker' = trip(breaker, r)
    /\ BreakerCalled("trip", breaker_hist.fails)

-----------------------------------------------------------------------------
(***************************************************************************)
(* The monotonic clock                                                     *)
(***************************************************************************)

\* The clock advances in steps of TickS seconds, up to MaxClock.
TickS      == 45
ClockStart == 45
MaxClock   == 135

\* time.monotonic() has an arbitrary origin: the process starts with the
\* clock at ClockStart.
InitClock == now = ClockStart

Tick ==
    /\ now + TickS <= MaxClock
    /\ now' = now + TickS

-----------------------------------------------------------------------------
(***************************************************************************)
(* RiskState and Shield                                                    *)
(***************************************************************************)

RiskState ==
    [daily_realized_pnl_cents |-> 0, open_exposure_cents |-> 0,
     trades_today |-> 0, last_circuit_break_reason |-> <<>>,
     is_halted |-> FALSE]

\* A faulty apply_fill that forgets to count the trade.
apply_fill_uncounted(r, cost_cents, quantity) ==
    [r EXCEPT !.open_exposure_cents = @ + cost_cents * quantity]

apply_fill(r, cost_cents, quantity) ==
    [r EXCEPT !.open_exposure_cents = @ + cost_cents * quantity,
              !.trades_today = @ + 1]

apply_settlement(r, pnl_cents, cost_cents, quantity) ==
    [r EXCEPT !.daily_realized_pnl_cents = @ + pnl_cents,
              !.open_exposure_cents = @ - cost_cents * quantity]

halt(r, reason) ==
    [r EXCEPT !.is_halted = TRUE, !.last_circuit_break_reason = <<reason>>]

resume(r) ==
    [r EXCEPT !.is_halted = FALSE, !.last_circuit_break_reason = <<>>]

\* ShieldAgent's constructor arguments, in cents / trades.
ShieldConfig ==
    [max_daily_loss_cents |-> 100, max_open_exposure_cents |-> 80,
     max_trades_per_game |-> 2]

\* A faulty _check_limits that tests the exposure ceiling first.
check_limits_exposure_first(r, count) ==
    IF r.is_halted THEN r
    ELSE IF r.open_exposure_cents > ShieldConfig.max_open_exposure_cents
         THEN halt(r, [limit |-> "open_exposure",
                       value |-> r.open_exposure_cents,
                       max |-> ShieldConfig.max_open_exposure_cents])
    ELSE IF r.daily_realized_pnl_cents < -ShieldConfig.max_daily_loss_cents
         THEN halt(r, [limit |-> "daily_loss",
                       value |-> r.daily_realized_pnl_cents,
                       max |-> ShieldConfig.max_daily_loss_cents])
    ELSE r

\* A faulty _check_limits without the early return of a halted system.
check_limits_rehalts(r, count) ==
    IF r.daily_realized_pnl_cents < -ShieldConfig.max_daily_loss_cents
    THEN halt(r, [limit |-> "daily_loss",
                  value |-> r.daily_realized_pnl_cents,
                  max |-> ShieldConfig.max_daily_loss_cents])
    ELSE IF r.open_exposure_cents > ShieldConfig.max_open_exposure_cents
         THEN halt(r, [limit |-> "open_exposure",
                       value |-> r.open_exposure_cents,
                       max |-> ShieldConfig.max_open_exposure_cents])
    ELSE r

\* ShieldAgent._check_limits: the RiskState it leaves.  The reason strings
\* are f-strings over the breached value and the limit.
check_limits(r, count) ==
    IF r.is_halted THEN r
    ELSE IF r.daily_realized_pnl_cents < -ShieldConfig.max_daily_loss_cents
         THEN halt(r, [limit |-> "daily_loss",
                       value |-> r.daily_realized_pnl_cents,
                       max |-> ShieldConfig.max_daily_loss_cents])
    ELSE IF r.open_exposure_cents > ShieldConfig.max_open_exposure_cents
         THEN halt(r, [limit |-> "open_exposure",
                       value |-> r.open_exposure_cents,
                       max |-> ShieldConfig.max_open_exposure_cents])
    ELSE r   \* count >= max_trades_per_game only logs a warning

\* ShieldAgent._process_fill, the RiskState it leaves: count is the ticker's
\* fill count after this report.
risk_after_fill(r, report, count) ==
    IF report.status \notin {"filled", "partial"} THEN r
    ELSE check_limits(apply_fill(r, report.avg_price_cents,
                                 report.filled_quantity),
                      count)

\* ShieldAgent._process_fill
process_fill(report) ==
    IF report.status \notin {"filled", "partial"}
    THEN UNCHANGED riskVars
    ELSE LET key   == report.market_ticker
             count == IF key \in DOMAIN game_trade_count
                      THEN game_trade_count[key] + 1 ELSE 1
         IN /\ game_trade_count' =
                  [k \in DOMAIN game_trade_count \cup {key} |->
                      IF k = key THEN count ELSE game_trade_count[k]]
            /\ risk' = risk_after_fill(risk, report, count)

EmptyMap == [k \in {} |-> 0]

InitRisk ==
    /\ risk = RiskState
    /\ game_trade_count = EmptyMap
    /\ risk_hist = [injected |-> 0, settled |-> 0]

\* ShieldAgent.run: one fill report taken from the bus and processed.
ShieldRun ==
    /\ Len(fill_reports) > 0
    /\ fill_reports' = Tail(fill_reports)
    /\ process_fill(Head(fill_reports))

-----------------------------------------------------------------------------
(***************************************************************************)
(* Sports feed clients and Oracle                                          *)
(***************************************************************************)

Feeds == {"espn", "sportsdata_io"}
Games == {"g1", "g2"}

SportOf(g) == IF g = "g1" THEN "ncaa_basketball" ELSE "premier_league"

\* The feed's team abbreviations for each game.
HomeTeam(g) == IF g = "g1" THEN "RADF" ELSE "ARS"
AwayTeam(g) == IF g = "g1" THEN "GWEBB" ELSE "CHE"

\* GameEvent.make: total_score is always home_score + away_score.
GameEvent(provider, game_id, home_score, away_score, period, is_final) ==
    [sport |-> SportOf(game_id), game_id |-> game_id,
     home_team |-> HomeTeam(game_id), away_team |-> AwayTeam(game_id),
     home_score |-> home_score, away_score |-> away_score,
     total_score |-> home_score + away_score,
     period |-> period, is_final |-> is_final, provider |-> provider]

\* The normalizers: a raw game whose status is neither live nor final gives
\* None; a final status sets is_final.
to_game_event(feed, raw) ==
    IF raw.status \notin {"live", "final"} THEN <<>>
    ELSE <<GameEvent(feed, raw.game_id, raw.home, raw.away, raw.period,
                     raw.status = "final")>>

\* A faulty test that takes every score for a new one.
is_new_score_always(feed, event) == TRUE

\* ESPNClient._is_new_score, SportsDataIOClient._is_new_score
is_new_score(feed, event) ==
    LET prev == feed_last[feed][event.game_id] IN
    IF prev = <<>> THEN TRUE
    ELSE <<event.home_score, event.away_score>> # prev[1]

\* A faulty dedup that never drops an event.
oracle_is_duplicate_never(event) == FALSE

\* OracleAgent._maybe_publish, the test: prev == (home_score, away_score)
oracle_is_duplicate(event) ==
    seen[event.game_id] = << <<event.home_score, event.away_score>> >>

\* The status the provider gave the game an event was normalised from.
StatusOf(event) == IF event.is_final THEN "final" ELSE "live"

\* The record of an event a feed client yielded to _run_feed.
EmissionOf(event) ==
    <<event.provider, event.game_id, event.home_score, event.away_score>>

\* OracleAgent._maybe_publish, called by _run_feed with an event the feed
\* client yielded
maybe_publish(event) ==
    IF oracle_is_duplicate(event)
    THEN UNCHANGED <<seen, game_events>>
         /\ oracle_hist' = [oracle_hist EXCEPT
                              !.polls = @ + 1,
                              !.emitted = Append(@, EmissionOf(event)),
                              !.last_status[event.game_id] = StatusOf(event)]
    ELSE /\ seen' = [seen EXCEPT ![event.game_id] =
                        << <<event.home_score, event.away_score>> >>]
         /\ publish_game_event(event)
         /\ oracle_hist' =
              [oracle_hist EXCEPT
                 !.polls = @ + 1,
                 !.emitted = Append(@, EmissionOf(event)),
                 !.last_status[event.game_id] = StatusOf(event),
                 !.published = Append(@, <<event.game_id, event.home_score,
                                           event.away_score>>)]

InitOracle ==
    /\ feed_last = [f \in Feeds |-> [g \in Games |-> <<>>]]
    /\ feed_loop = [f \in Feeds |-> [consecutive_errors |-> 0, warnings |-> 0,
                                     slept |-> <<>>]]
    /\ seen = [g \in Games |-> <<>>]
    /\ oracle_hist = [polls |-> 0, published |-> <<>>, emitted |-> <<>>,
                      last_status |-> [g \in Games |-> ""]]
    /\ poll_log = <<>>

\* How many polls with a game in them the feed clients make in a run.
MaxPolls == 3

\* The poll interval of the feed clients, in ms (poll_interval_s = 0.75).
POLL_INTERVAL_MS == 750

\* stream(), the sleep after a poll that took elapsed ms:
\* max(0.0, self._poll_interval_s - elapsed)
stream_sleep(elapsed) == Max(0, POLL_INTERVAL_MS - elapsed)

\* stream(), the end of an iteration: the record of the sleep it takes, with
\* the poll's duration.
slept_after(elapsed) ==
    << [elapsed |-> elapsed, sleep |-> stream_sleep(elapsed)] >>

\* One poll of one feed client that finds one raw game and takes elapsed ms:
\* stream() resets consecutive_errors, the client's _fetch_live_games
\* normalises the game, keeps it when the score is new for this client, and
\* yields it to OracleAgent._run_feed, which runs _maybe_publish; then the
\* client sleeps.  Nothing else runs between the fetch returning and
\* _maybe_publish.
FeedPollIn(feed, raw, elapsed) ==
    /\ oracle_hist.polls < MaxPolls
    /\ feed_loop' = [feed_loop EXCEPT ![feed].consecutive_errors = 0,
                                      ![feed].slept = slept_after(elapsed)]
    /\ LET ev == to_game_event(feed, raw) IN
       IF ev # <<>> /\ is_new_score(feed, ev[1])
       THEN /\ feed_last' = [feed_last EXCEPT ![feed][raw.game_id] =
                                << <<raw.home, raw.away>> >>]
            /\ maybe_publish(ev[1])
       ELSE /\ oracle_hist' = [oracle_hist EXCEPT
                                 !.polls = @ + 1,
                                 !.last_status[raw.game_id] = raw.status]
            /\ UNCHANGED <<feed_last, seen, game_events>>

\* A poll whose fetch takes no measurable time.
FeedPoll(feed, raw) == FeedPollIn(feed, raw, 0)

\* A faulty test that warns on every failure.
warns_on_every(consecutive_errors) == TRUE

\* stream(), "Log first error and every 100th after that"
warns_on(consecutive_errors) ==
    consecutive_errors = 1 \/ consecutive_errors % 100 = 0

\* One poll whose fetch raises after elapsed ms: stream() counts the failure,
\* logs a warning for the first and every hundredth in a row, and sleeps.
FeedPollError(feed, elapsed) ==
    /\ LET n == feed_loop[feed].consecutive_errors + 1 IN
       feed_loop' = [feed_loop EXCEPT
                       ![feed].consecutive_errors = n,
                       ![feed].warnings = IF warns_on(n) THEN @ + 1 ELSE @,
                       ![feed].slept = slept_after(elapsed)]
    /\ UNCHANGED <<feed_last, seen, oracle_hist, game_events>>

RawGames(games, scores, periods, statuses) ==
    {[game_id |-> g, home |-> sc[1], away |-> sc[2], period |-> p,
      status |-> st] :
        g \in games, sc \in scores, p \in periods, st \in statuses}

-----------------------------------------------------------------------------
(***************************************************************************)
(* KalshiWSClient and Watcher                                              *)
(***************************************************************************)

\* A ticker is the list of its '-'-separated parts.
T5  == <<"KXNCAAMBTOTAL", "26FEB19G1", "5">>
T10 == <<"KXNCAAMBTOTAL", "26FEB19G1", "10">>
TX  == <<"KXNCAAMBTOTAL", "26FEB19G1", "OT">>
ML1 == <<"KXNCAAMBGAME", "26FEB19G1">>

Tickers == {T5, T10, TX, ML1}

MarketUpdate(ticker, yes_bid, yes_ask, no_bid, no_ask, yes_volume, sequence) ==
    [market_ticker |-> ticker, yes_bid |-> yes_bid, yes_ask |-> yes_ask,
     no_bid |-> no_bid, no_ask |-> no_ask, yes_volume |-> yes_volume,
     sequence |-> sequence]

SetMin(S) == CHOOSE x \in S : \A y \in S : x <= y
SetMax(S) == CHOOSE x \in S : \A y \in S : x >= y

LivePrices(levels) == {levels[i][1] : i \in {j \in 1..Len(levels) : levels[j][2] > 0}}

\* KalshiWSClient._best_ask / _best_bid: None on an empty side
best_ask(levels) ==
    IF LivePrices(levels) = {} THEN <<>> ELSE <<SetMin(LivePrices(levels))>>

best_bid(levels) ==
    IF LivePrices(levels) = {} THEN <<>> ELSE <<SetMax(LivePrices(levels))>>

\* KalshiWSClient._volume_at_ask: the quantity of the first level at the ask
volume_at_ask(levels, ask) ==
    LET at == {i \in 1..Len(levels) : levels[i][1] = ask} IN
    IF at = {} THEN 0 ELSE levels[SetMin(at)][2]

OrElse(opt, default) == IF opt = <<>> THEN default ELSE opt[1]

\* The MarketUpdate _handle_message builds from a book frame.
frame_update(frame) ==
    LET yes_ask == best_ask(frame.yes)
        yes_bid == best_bid(frame.yes)
        no_ask  == best_ask(frame.no)
        no_bid  == best_bid(frame.no)
    IN MarketUpdate(frame.ticker[1],
                    OrElse(yes_bid, 0), OrElse(yes_ask, 100),
                    OrElse(no_bid, 0), OrElse(no_ask, 100),
                    IF yes_ask # <<>> THEN volume_at_ask(frame.yes, yes_ask[1]) ELSE 0,
                    frame.seq)

\* self._last_seq.get(ticker, -1)
last_seq_of(ticker) == OrElse(ws.last_seq[ticker], -1)

\* A faulty gap test that only notices sequence numbers that jump ahead.
seq_gap_forward_only(last, msg_type, seq) ==
    last >= 0 /\ msg_type = "orderbook_delta" /\ seq > last + 1

\* _handle_message, the gap test
seq_gap(last, msg_type, seq) ==
    last >= 0 /\ msg_type = "orderbook_delta" /\ seq # last + 1

\* WatcherAgent.handle_update: cache, then republish on the bus
handle_update(update) ==
    /\ latest' = [latest EXCEPT ![update.market_ticker] = <<update>>]
    /\ publish_market_update(update)

\* Is this frame one _handle_message goes through with?
is_book_frame(frame) ==
    /\ frame.type \in {"orderbook_snapshot", "orderbook_delta"}
    /\ frame.ticker # <<>>

\* KalshiWSClient._handle_message: the last_seq map it leaves
handle_message_last_seq(frame) ==
    IF is_book_frame(frame)
    THEN [ws.last_seq EXCEPT ![frame.ticker[1]] = <<frame.seq>>]
    ELSE ws.last_seq

\* KalshiWSClient._handle_message: does it log the gap warning?
handle_message_warns(frame) ==
    /\ is_book_frame(frame)
    /\ seq_gap(last_seq_of(frame.ticker[1]), frame.type, frame.seq)

\* KalshiWSClient._handle_message: what it hands to the Watcher (a malformed
\* frame, another type or a frame with no ticker returns early)
handle_message_watcher(frame) ==
    IF is_book_frame(frame)
    THEN handle_update(frame_update(frame))
    ELSE UNCHANGED <<latest, market_updates>>

BACKOFF_START_DS == 5      \* 0.5 s, in tenths of a second
MAX_BACKOFF_DS   == 50     \* MAX_BACKOFF_S = 5.0

InitWS ==
    /\ ws = [subscribed_tickers |-> {}, last_seq |-> [t \in Tickers |-> <<>>],
             live_ws |-> <<>>, pending_subscribe |-> <<>>, tasks |-> <<>>,
             shutdown |-> FALSE, pc |-> "loop", backoff |-> BACKOFF_START_DS]
    /\ exchange_ws = [conn |-> 0, open |-> FALSE, subscribed |-> {}]
    /\ latest = [t \in Tickers |-> <<>>]
    /\ ws_hist = [frames |-> 0, warnings |-> 0, last |-> <<>>, sent |-> <<>>,
                  subscribes |-> 0, subscribe_calls |-> <<>>]

\* _send_subscription_batch on socket conn: nothing for an empty batch; the
\* frame goes out, and the exchange subscribes, only if that socket is open.
\* Returns the pair <<exchange_ws', sent'>>.
send_batch(ex, sent, conn, tickers) ==
    IF tickers = {} THEN <<ex, sent>>
    ELSE << [ex EXCEPT !.subscribed = @ \cup tickers],
            Append(sent, [conn |-> conn, tickers |-> tickers]) >>

RECURSIVE send_batches(_, _, _, _)
send_batches(ex, sent, conn, batches) ==
    IF batches = <<>> THEN <<ex, sent>>
    ELSE LET r == send_batch(ex, sent, conn, Head(batches)) IN
         send_batches(r[1], r[2], conn, Tail(batches))

\* A subscribe that queues or sends whatever it is given.
subscribe_unfiltered(w, tickers) ==
    IF tickers = {} THEN w
    ELSE LET w1 == [w EXCEPT !.subscribed_tickers = @ \cup tickers] IN
         IF w1.live_ws # <<>>
         THEN [w1 EXCEPT !.tasks = Append(@, [conn |-> w1.live_ws[1],
                                               tickers |-> tickers])]
         ELSE [w1 EXCEPT !.pending_subscribe = Append(@, tickers)]

\* KalshiWSClient.subscribe: the client it leaves
subscribe(w, tickers) ==
    LET new_tickers == tickers \ w.subscribed_tickers IN
    IF new_tickers = {} THEN w
    ELSE LET w1 == [w EXCEPT !.subscribed_tickers = @ \cup new_tickers] IN
         IF w1.live_ws # <<>>
         THEN [w1 EXCEPT !.tasks = Append(@, [conn |-> w1.live_ws[1],
                                               tickers |-> new_tickers])]
         ELSE [w1 EXCEPT !.pending_subscribe = Append(@, new_tickers)]

\* KalshiWSClient.unsubscribe
unsubscribe(w, tickers) ==
    [w EXCEPT !.subscribed_tickers = @ \ tickers]

\* A faulty connect that drains the pending batches only.
WSConnectOk_pending_only ==
    /\ ws.pc = "loop" /\ ~ws.shutdown
    /\ LET conn == exchange_ws.conn + 1
           ex0  == [conn |-> conn, open |-> TRUE, subscribed |-> {}]
           r    == send_batches(ex0, ws_hist.sent, conn, ws.pending_subscribe)
       IN /\ exchange_ws' = r[1]
          /\ ws_hist' = [ws_hist EXCEPT !.sent = r[2]]
          /\ ws' = [ws EXCEPT !.live_ws = <<conn>>, !.pending_subscribe = <<>>,
                              !.pc = "consume"]
    /\ UNCHANGED <<latest, market_updates>>

\* run(): the loop test, then websockets.connect succeeds; the client sends
\* the full subscribed set, then drains the pending batches.
WSConnectOk ==
    /\ ws.pc = "loop" /\ ~ws.shutdown
    /\ LET conn == exchange_ws.conn + 1
           ex0  == [conn |-> conn, open |-> TRUE, subscribed |-> {}]
           r    == send_batches(ex0, ws_hist.sent, conn,
                                <<ws.subscribed_tickers>> \o ws.pending_subscribe)
       IN /\ exchange_ws' = r[1]
          /\ ws_hist' = [ws_hist EXCEPT !.sent = r[2]]
          /\ ws' = [ws EXCEPT !.live_ws = <<conn>>, !.pending_subscribe = <<>>,
                              !.pc = "consume"]
    /\ UNCHANGED <<latest, market_updates>>

\* websockets.connect raises: run() logs and goes to sleep
WSConnectFail ==
    /\ ws.pc = "loop" /\ ~ws.shutdown
    /\ ws' = [ws EXCEPT !.pc = "sleep"]
    /\ UNCHANGED <<exchange_ws, latest, ws_hist, market_updates>>

\* run(): the loop test finds the shutdown event set
WSLoopExit ==
    /\ ws.pc = "loop" /\ ws.shutdown
    /\ ws' = [ws EXCEPT !.pc = "done"]
    /\ UNCHANGED <<exchange_ws, latest, ws_hist, market_updates>>

\* The exchange sends frames for the tickers subscribed on this socket (and
\* frames of other kinds).
FrameAllowed(frame) ==
    frame.ticker # <<>> => frame.ticker[1] \in exchange_ws.subscribed

\* One frame arrives on the live socket: on shutdown the loop breaks, the
\* socket is closed, _live_ws is cleared and backoff reset; otherwise the
\* pending batches are flushed and _handle_message runs.
WSMessage(frame) ==
    /\ ws.pc = "consume" /\ exchange_ws.open
    /\ FrameAllowed(frame)
    /\ IF ws.shutdown
       THEN /\ ws' = [ws EXCEPT !.live_ws = <<>>, !.pc = "sleep",
                                !.backoff = BACKOFF_START_DS]
            /\ exchange_ws' = [exchange_ws EXCEPT !.open = FALSE]
            /\ UNCHANGED <<latest, ws_hist, market_updates>>
       ELSE LET r == send_batches(exchange_ws, ws_hist.sent, ws.live_ws[1],
                                  ws.pending_subscribe)
            IN /\ exchange_ws' = r[1]
               /\ ws' = [ws EXCEPT !.pending_subscribe = <<>>,
                                   !.last_seq = handle_message_last_seq(frame)]
               /\ ws_hist' = [frames |-> ws_hist.frames + 1,
                              warnings |-> ws_hist.warnings +
                                  (IF handle_message_warns(frame) THEN 1 ELSE 0),
                              last |-> <<frame>>,
                              sent |-> r[2],
                              subscribes |-> ws_hist.subscribes,
                              subscribe_calls |-> ws_hist.subscribe_calls]
               /\ handle_message_watcher(frame)

\* The socket closes normally: the async-for ends, _live_ws is cleared and
\* run() resets backoff before it sleeps.
WSCloseClean ==
    /\ ws.pc = "consume" /\ exchange_ws.open
    /\ exchange_ws' = [exchange_ws EXCEPT !.open = FALSE]
    /\ ws' = [ws EXCEPT !.live_ws = <<>>, !.pc = "sleep",
                        !.backoff = BACKOFF_START_DS]
    /\ UNCHANGED <<latest, ws_hist, market_updates>>

\* The socket fails (ConnectionClosed or another error raised out of the
\* async-for): the line that clears _live_ws is not reached.
WSCloseError ==
    /\ ws.pc = "consume" /\ exchange_ws.open
    /\ exchange_ws' = [exchange_ws EXCEPT !.open = FALSE]
    /\ ws' = [ws EXCEPT !.pc = "sleep"]
    /\ UNCHANGED <<latest, ws_hist, market_updates>>

\* asyncio.sleep(backoff) returns; backoff = min(backoff * 2, MAX_BACKOFF_S)
WSSleepDone ==
    /\ ws.pc = "sleep"
    /\ ws' = [ws EXCEPT !.pc = "loop",
                        !.backoff = Min(@ * 2, MAX_BACKOFF_DS)]
    /\ UNCHANGED <<exchange_ws, latest, ws_hist, market_updates>>

\* request_shutdown()
WSRequestShutdown ==
    /\ ~ws.shutdown
    /\ ws' = [ws EXCEPT !.shutdown = TRUE]
    /\ UNCHANGED <<exchange_ws, latest, ws_hist, market_updates>>

\* A "ws-subscribe-immediate" task runs: it sends its batch on the socket it
\* was given; on a socket that is no longer open the send raises and the
\* task ends.
WSImmediateSend ==
    /\ ws.tasks # <<>>
    /\ LET task == Head(ws.tasks)
           ok   == exchange_ws.open /\ exchange_ws.conn = task.conn
           r    == send_batch(exchange_ws, ws_hist.sent, task.conn, task.tickers)
       IN /\ ws' = [ws EXCEPT !.tasks = Tail(@)]
          /\ exchange_ws' = IF ok THEN r[1] ELSE exchange_ws
          /\ ws_hist' = [ws_hist EXCEPT !.sent = IF ok THEN r[2] ELSE @]
    /\ UNCHANGED <<latest, market_updates>>

-----------------------------------------------------------------------------
(***************************************************************************)
(* Edge arithmetic, ThresholdMap, MoneylineMap                             *)
(***************************************************************************)

KALSHI_FEE_RATE_PCT   == 7      \* KALSHI_FEE_RATE = 0.07
CONTRACT_PAYOUT_CENTS == 100

\* int(x) of a value given in hundredths: truncation towards zero
TruncHundredths(x100) ==
    IF x100 >= 0 THEN x100 \div 100 ELSE -((-x100) \div 100)

\* net_payout = CONTRACT_PAYOUT_CENTS * (1.0 - fee_rate), in hundredths of a cent
net_payout_x100 == CONTRACT_PAYOUT_CENTS * (100 - KALSHI_FEE_RATE_PCT)

calculate_edge(yes_ask_cents) ==
    TruncHundredths(net_payout_x100 - 100 * yes_ask_cents)

max_tradeable_price(min_edge_cents) ==
    TruncHundredths(net_payout_x100 - 100 * min_edge_cents)

\* A faulty has_edge that finds edge at every price.
has_edge_always(yes_ask_cents, min_edge_cents) == TRUE

has_edge(yes_ask_cents, min_edge_cents) ==
    calculate_edge(yes_ask_cents) >= min_edge_cents

\* The moneyline edge, 100 x win_prob x (1 - fee_rate) - ask, truncated as the
\* totals edge is; win_prob is given in percent.
calculate_moneyline_edge(ask_cents, win_prob_pct) ==
    TruncHundredths((net_payout_x100 * win_prob_pct) \div 100 - 100 * ask_cents)

has_moneyline_edge(ask_cents, win_prob_pct, min_edge_cents) ==
    calculate_moneyline_edge(ask_cents, win_prob_pct) >= min_edge_cents

\* brain._estimate_win_prob, in percent (0 = skip)
estimate_win_prob(lead_margin, period, sport) ==
    IF sport = "ncaa_basketball" THEN
        IF period < 2 THEN 0
        ELSE IF lead_margin >= 20 THEN 97
        ELSE IF lead_margin >= 15 THEN 93
        ELSE IF lead_margin >= 10 THEN 86
        ELSE IF lead_margin >= 7 THEN 78
        ELSE IF lead_margin >= 5 THEN 68
        ELSE 0
    ELSE IF sport \in {"premier_league", "champions_league"} THEN
        IF period < 2 THEN 0
        ELSE IF lead_margin >= 3 THEN 97
        ELSE IF lead_margin >= 2 THEN 91
        ELSE IF lead_margin >= 1 THEN 68
        ELSE 0
    ELSE 0

\* int(last_part) for the ticker suffixes in use; any other suffix raises
IntOf == ("5" :> 5) @@ ("10" :> 10)

\* threshold_map._trigger_from_ticker: None when the last part is no integer
trigger_from_ticker(ticker) ==
    LET last_part == ticker[Len(ticker)] IN
    IF last_part \in DOMAIN IntOf THEN <<IntOf[last_part]>> ELSE <<>>

ThresholdEntry(trigger_score, market_ticker, already_triggered) ==
    [trigger_score |-> trigger_score, market_ticker |-> market_ticker,
     side |-> "yes", already_triggered |-> already_triggered]

\* Faulty entries that all start untriggered.
RECURSIVE entries_of_markets_fresh(_, _)
entries_of_markets_fresh(current_total, kalshi_markets) ==
    IF kalshi_markets = <<>> THEN <<>>
    ELSE LET ticker  == Head(kalshi_markets).ticker
             trigger == trigger_from_ticker(ticker)
             rest    == entries_of_markets_fresh(current_total, Tail(kalshi_markets))
         IN IF trigger = <<>> THEN rest
            ELSE <<ThresholdEntry(trigger[1], ticker, FALSE)>> \o rest

\* The entries in listing order, before the sort.
RECURSIVE entries_of_markets(_, _)
entries_of_markets(current_total, kalshi_markets) ==
    IF kalshi_markets = <<>> THEN <<>>
    ELSE LET ticker  == Head(kalshi_markets).ticker
             trigger == trigger_from_ticker(ticker)
             rest    == entries_of_markets(current_total, Tail(kalshi_markets))
         IN IF trigger = <<>> THEN rest
            ELSE <<ThresholdEntry(trigger[1], ticker, trigger[1] <= current_total)>>
                 \o rest

\* One step of the stable sort: entry goes behind every entry of the sorted
\* list whose trigger_score is not larger.
RECURSIVE insert_by_trigger(_, _)
insert_by_trigger(sorted, entry) ==
    IF sorted = <<>> THEN <<entry>>
    ELSE IF Head(sorted).trigger_score <= entry.trigger_score
    THEN <<Head(sorted)>> \o insert_by_trigger(Tail(sorted), entry)
    ELSE <<entry>> \o sorted

\* entries.sort(key=lambda e: e.trigger_score): ascending, and stable
RECURSIVE sort_by_trigger(_)
sort_by_trigger(entries) ==
    IF entries = <<>> THEN <<>>
    ELSE insert_by_trigger(sort_by_trigger(SubSeq(entries, 1, Len(entries) - 1)),
                           entries[Len(entries)])

\* A builder that returns the entries in listing order.
build_basketball_entries_unsorted(current_total, kalshi_markets) ==
    entries_of_markets(current_total, kalshi_markets)

\* ThresholdMap.build_basketball_entries
build_basketball_entries(current_total, kalshi_markets) ==
    sort_by_trigger(entries_of_markets(current_total, kalshi_markets))

\* ThresholdMap.build_soccer_entries
build_soccer_entries(current_total, kalshi_markets) ==
    sort_by_trigger(entries_of_markets(current_total, kalshi_markets))

SIGNAL_COOLDOWN_S == 45     \* _SIGNAL_COOLDOWN_NS = 45_000_000_000

MoneylineEntry(market_ticker, team_side, trade_side) ==
    [market_ticker |-> market_ticker, team_side |-> team_side,
     trade_side |-> trade_side, last_signaled |-> 0]

\* A faulty cooldown test that never holds a signal back.
on_cooldown_never(entry, now_s) == FALSE

\* MoneylineEntry.on_cooldown (times in seconds)
on_cooldown(entry, now_s) ==
    (now_s - entry.last_signaled) < SIGNAL_COOLDOWN_S

\* MoneylineEntry.mark_signaled
mark_signaled(entry, now_s) ==
    [entry EXCEPT !.last_signaled = now_s]

\* A market of the exchange's listing.  A title "A at B: ..." is kept as the
\* pair <<A, B>> that _parse_title extracts from it.
Market(ticker, title) == [ticker |-> ticker, title |-> title]

G1Title == <<"Gardner-Webb", "Radford">>
G2Title == <<"Chelsea", "Arsenal">>

\* brain._abbrev_matches_name on the abbreviations and names in use
AbbrevMatches ==
    { <<"RADF", "Radford">>, <<"GWEBB", "Gardner-Webb">>,
      <<"ARS", "Arsenal">>, <<"CHE", "Chelsea">> }

abbrev_matches_name(abbrev, full_name) == <<abbrev, full_name>> \in AbbrevMatches

\* Does the title's game have this event's teams?
title_matches(title, event) ==
    /\ abbrev_matches_name(event.home_team, title[2])
    /\ abbrev_matches_name(event.away_team, title[1])

\* brain._filter_markets_for_game: the markets that carry the first title
\* (in listing order) whose teams match the event's
filter_markets_for_game(markets, event) ==
    LET hits == {i \in 1..Len(markets) : title_matches(markets[i].title, event)} IN
    IF hits = {} THEN <<>>
    ELSE LET title == markets[SetMin(hits)].title IN
         SelectSeq(markets, LAMBDA m : m.title = title)

\* title.upper().find(abbrev[:4]) for an abbreviation of 4 letters or more,
\* -1 for a shorter one
title_find(title, abbrev) ==
    IF <<title, abbrev>> = <<G1Title, "RADF">> THEN 16 ELSE -1

\* brain._build_moneyline_entries, the two-market layout
RECURSIVE moneyline_entries_of(_, _)
moneyline_entries_of(game_markets, event) ==
    IF game_markets = <<>> THEN <<>>
    ELSE LET mkt      == Head(game_markets)
             home_pos == title_find(mkt.title, event.home_team)
             away_pos == title_find(mkt.title, event.away_team)
             side     == IF home_pos >= 0 /\ (away_pos < 0 \/ home_pos < away_pos)
                         THEN "home" ELSE "away"
         IN <<MoneylineEntry(mkt.ticker, side, "yes")>>
            \o moneyline_entries_of(Tail(game_markets), event)

\* brain._build_moneyline_entries
build_moneyline_entries(game_markets, event) ==
    IF game_markets = <<>> THEN <<>>
    ELSE IF Len(game_markets) = 1
    THEN << MoneylineEntry(game_markets[1].ticker, "home", "yes"),
            MoneylineEntry(game_markets[1].ticker, "away", "no") >>
    ELSE moneyline_entries_of(SubSeq(game_markets, 1, 2), event)

-----------------------------------------------------------------------------
(***************************************************************************)
(* BrainAgent                                                              *)
(***************************************************************************)

Sports == {SportOf(g) : g \in Games}

CRUNCH_TIME_ASK_THRESHOLD == 60
REGISTRATION_RETRY_S      == 60
ML_MAX_PRICE_CENTS        == 97     \* the literal in _check_moneyline_signal

\* BrainAgent's constructor arguments.  moneyline and gate say whether a
\* MoneylineMap was passed and set_gate() was called; series and ml_series
\* are the sports that have a series pattern.
BrainConfig(max_slippage_cents) ==
    [min_edge_cents |-> 3, max_slippage_cents |-> max_slippage_cents,
     max_spend_per_trade_cents |-> 100, max_quantity |-> 50,
     moneyline |-> TRUE, gate |-> TRUE,
     series |-> Sports, ml_series |-> Sports]

Slippages == {2, 4}

InitBrain ==
    /\ brain = [game_state |-> [g \in Games |-> "none"],
                game_state_failed_at |-> [g \in Games |-> 0],
                ml_game_state |-> [g \in Games |-> "none"],
                ml_game_state_failed_at |-> [g \in Games |-> 0],
                prev_scores |-> [g \in Games |-> <<>>],
                todays_markets |-> [sp \in Sports |-> <<>>],
                ml_todays_markets |-> [sp \in Sports |-> <<>>],
                markets_fetched_date |-> "",
                pc |-> "get", event |-> <<>>, prev |-> <<0, 0>>, idx |-> 0,
                registered_now |-> FALSE, finals_seen |-> {}]
    /\ threshold_map = [g \in Games |-> <<>>]
    /\ moneyline_map = [g \in Games |-> <<>>]
    /\ gate = {}
    /\ cfg \in {BrainConfig(sl) : sl \in Slippages}
    /\ signal_log = <<>>

\* Everything _process_event can write, as one value.
World ==
    [brain |-> brain, threshold_map |-> threshold_map,
     moneyline_map |-> moneyline_map, gate |-> gate, ws |-> ws,
     latest |-> latest, market_updates |-> market_updates,
     trade_signals |-> trade_signals, signal_log |-> signal_log]

Commit(w) ==
    /\ brain' = w.brain
    /\ threshold_map' = w.threshold_map
    /\ moneyline_map' = w.moneyline_map
    /\ gate' = w.gate
    /\ ws' = w.ws
    /\ latest' = w.latest
    /\ market_updates' = w.market_updates
    /\ trade_signals' = w.trade_signals
    /\ signal_log' = w.signal_log

ExecuteTrade(signal_id, market_ticker, side, max_price_cents, quantity, game_id, generated_at) ==
    [signal_id |-> signal_id, market_ticker |-> market_ticker, side |-> side,
     max_price_cents |-> max_price_cents, quantity |-> quantity,
     game_id |-> game_id, generated_at |-> generated_at]

\* A faulty _quantity_for_price without the max_quantity cap.
quantity_for_price_uncapped(ask_cents) ==
    Max(1, cfg.max_spend_per_trade_cents \div Max(ask_cents, 1))

\* BrainAgent._quantity_for_price
quantity_for_price(ask_cents) ==
    Min(Max(1, cfg.max_spend_per_trade_cents \div Max(ask_cents, 1)),
        cfg.max_quantity)

\* self._bus.publish_trade_signal(signal), and the record of the call
publish_signal(w, kind, team_side, signal) ==
    [w EXCEPT
       !.trade_signals = put_nowait(@, TRADE_SIGNALS_MAXSIZE, signal),
       !.signal_log = Append(@, [kind |-> kind, team_side |-> team_side,
                                 game_id |-> signal.game_id,
                                 market_ticker |-> signal.market_ticker,
                                 side |-> signal.side,
                                 max_price_cents |-> signal.max_price_cents,
                                 quantity |-> signal.quantity,
                                 generated_at |-> signal.generated_at,
                                 yes_ask |-> w.latest[signal.market_ticker][1].yes_ask,
                                 halted |-> risk.is_halted])]

\* _process_event returns: Brain is back at game_events.get()
finish(w) ==
    [w EXCEPT !.brain.pc = "get", !.brain.event = <<>>,
              !.brain.prev = <<0, 0>>, !.brain.idx = 0,
              !.brain.registered_now = FALSE]

\* The limit price of a moneyline signal
moneyline_limit_price(ask) ==
    Min(ask + cfg.max_slippage_cents, ML_MAX_PRICE_CENTS)

\* A faulty loop that signals for the leading team whether or not it scored.
RECURSIVE moneyline_loop_leader(_, _, _, _, _)
moneyline_loop_leader(w, event, prev, now_s, i) ==
    LET entries == w.moneyline_map[event.game_id] IN
    IF i > Len(entries) THEN w
    ELSE
      LET entry       == entries[i]
          lead        == event.home_score - event.away_score
          qualifies   == IF entry.team_side = "home" THEN lead > 0 ELSE lead < 0
          margin      == IF lead >= 0 THEN lead ELSE -lead
          win_prob    == estimate_win_prob(margin, event.period, event.sport)
          market      == w.latest[entry.market_ticker]
          ask         == IF entry.trade_side = "yes"
                         THEN market[1].yes_ask ELSE market[1].no_ask
      IN IF \/ on_cooldown(entry, now_s)
            \/ ~qualifies
            \/ win_prob = 0
            \/ market = <<>>
         THEN moneyline_loop_leader(w, event, prev, now_s, i + 1)
         ELSE IF ~has_moneyline_edge(ask, win_prob, cfg.min_edge_cents)
         THEN moneyline_loop_leader(w, event, prev, now_s, i + 1)
         ELSE
           LET w1 == [w EXCEPT !.moneyline_map[event.game_id][i] =
                                   mark_signaled(entry, now_s)]
               signal == ExecuteTrade(Len(w.signal_log) + 1, entry.market_ticker,
                                      entry.trade_side,
                                      Min(ask + cfg.max_slippage_cents, 97),
                                      quantity_for_price(ask), event.game_id, now_s)
           IN moneyline_loop_leader(
                  publish_signal(w1, "moneyline", entry.team_side, signal),
                  event, prev, now_s, i + 1)

\* BrainAgent._check_moneyline_signal: the loop over the entries from entry i
RECURSIVE moneyline_loop(_, _, _, _, _)
moneyline_loop(w, event, prev, now_s, i) ==
    LET entries == w.moneyline_map[event.game_id] IN
    IF i > Len(entries) THEN w
    ELSE
      LET entry       == entries[i]
          home_scored == event.home_score > prev[1]
          away_scored == event.away_score > prev[2]
          lead        == event.home_score - event.away_score
          qualifies   == IF entry.team_side = "home"
                         THEN home_scored /\ lead > 0
                         ELSE away_scored /\ lead < 0
          margin      == IF lead >= 0 THEN lead ELSE -lead
          win_prob    == estimate_win_prob(margin, event.period, event.sport)
          market      == w.latest[entry.market_ticker]
          ask         == IF entry.trade_side = "yes"
                         THEN market[1].yes_ask ELSE market[1].no_ask
      IN IF \/ on_cooldown(entry, now_s)
            \/ ~qualifies
            \/ win_prob = 0
            \/ market = <<>>
         THEN moneyline_loop(w, event, prev, now_s, i + 1)
         ELSE IF ~has_moneyline_edge(ask, win_prob, cfg.min_edge_cents)
         THEN moneyline_loop(w, event, prev, now_s, i + 1)
         ELSE
           LET w1 == [w EXCEPT !.moneyline_map[event.game_id][i] =
                                   mark_signaled(entry, now_s)]
               signal == ExecuteTrade(Len(w.signal_log) + 1, entry.market_ticker,
                                      entry.trade_side, moneyline_limit_price(ask),
                                      quantity_for_price(ask), event.game_id, now_s)
           IN moneyline_loop(publish_signal(w1, "moneyline", entry.team_side, signal),
                             event, prev, now_s, i + 1)

\* BrainAgent._check_moneyline_signal
check_moneyline_signal(w, event, prev) ==
    IF risk.is_halted THEN w
    ELSE moneyline_loop(w, event, prev, now, 1)

\* _process_event from "Moneyline signals" to its end
moneyline_stage(w, event) ==
    finish(IF cfg.moneyline /\ w.brain.ml_game_state[event.game_id] = "registered"
           THEN check_moneyline_signal(w, event, w.brain.prev)
           ELSE w)

\* _evaluate_and_signal from "yes_ask = market.yes_ask" to its end
signal_if_edge(w, event, entry, market) ==
    LET yes_ask     == market.yes_ask
        limit_price == Min(yes_ask + cfg.max_slippage_cents,
                           max_tradeable_price(cfg.min_edge_cents))
        signal      == ExecuteTrade(Len(w.signal_log) + 1, entry.market_ticker,
                                    entry.side, limit_price,
                                    quantity_for_price(yes_ask), event.game_id, now)
    IN IF ~has_edge(yes_ask, cfg.min_edge_cents) THEN w
       ELSE publish_signal(w, "totals", "", signal)

\* A faulty first line of _evaluate_and_signal that leaves the flag alone.
mark_triggered_forgotten(entry) == entry

\* _evaluate_and_signal, its first line: entry.already_triggered = True
mark_triggered(entry) ==
    [entry EXCEPT !.already_triggered = TRUE]

\* A faulty scan that takes up an entry only when the total is above its
\* trigger.
RECURSIVE scan_entries_above(_, _, _)
scan_entries_above(w, event, i) ==
    LET entries == w.threshold_map[event.game_id] IN
    IF i > Len(entries) THEN moneyline_stage(w, event)
    ELSE
      LET entry == entries[i] IN
      IF entry.already_triggered \/ event.total_score <= entry.trigger_score
      THEN scan_entries_above(w, event, i + 1)
      ELSE
        LET w1     == [w EXCEPT !.threshold_map[event.game_id][i] =
                                    mark_triggered(entry)]
            market == w1.latest[entry.market_ticker]
        IN IF risk.is_halted THEN scan_entries_above(w1, event, i + 1)
           ELSE IF market = <<>>
           THEN [w1 EXCEPT !.brain.pc = "rest", !.brain.idx = i]
           ELSE scan_entries_above(signal_if_edge(w1, event, entry, market[1]),
                             event, i + 1)

\* _process_event, the totals scan from entry i on, with _evaluate_and_signal
\* for each entry the score has reached.  The scan stops, with Brain
\* suspended in the REST fallback for entry i, when the Watcher has no book
\* for the entry's ticker; otherwise it runs on into the moneyline stage.
RECURSIVE scan_entries(_, _, _)
scan_entries(w, event, i) ==
    LET entries == w.threshold_map[event.game_id] IN
    IF i > Len(entries) THEN moneyline_stage(w, event)
    ELSE
      LET entry == entries[i] IN
      IF entry.already_triggered \/ event.total_score < entry.trigger_score
      THEN scan_entries(w, event, i + 1)
      ELSE
        LET w1     == [w EXCEPT !.threshold_map[event.game_id][i] =
                                    mark_triggered(entry)]
            market == w1.latest[entry.market_ticker]
        IN IF risk.is_halted THEN scan_entries(w1, event, i + 1)
           ELSE IF market = <<>>
           THEN [w1 EXCEPT !.brain.pc = "rest", !.brain.idx = i]
           ELSE scan_entries(signal_if_edge(w1, event, entry, market[1]),
                             event, i + 1)

\* The lowest unresolved entry: min(unresolved, key=trigger_score) returns the
\* first of the smallest.
lowest_unresolved(entries) ==
    LET unresolved == {i \in 1..Len(entries) : ~entries[i].already_triggered}
        least      == {i \in unresolved :
                         \A j \in unresolved :
                            entries[i].trigger_score <= entries[j].trigger_score}
    IN IF unresolved = {} THEN <<>> ELSE <<entries[SetMin(least)]>>

\* A faulty _check_crunch_time that wants an ask above the threshold.
check_crunch_time_strict(w, event) ==
    LET lowest == lowest_unresolved(w.threshold_map[event.game_id]) IN
    IF ~cfg.gate \/ event.game_id \in w.gate THEN w
    ELSE IF lowest = <<>> THEN w
    ELSE LET market == w.latest[lowest[1].market_ticker] IN
         IF market = <<>> THEN w
         ELSE IF market[1].yes_ask > CRUNCH_TIME_ASK_THRESHOLD
         THEN [w EXCEPT !.gate = @ \cup {event.game_id}]
         ELSE w

\* BrainAgent._check_crunch_time
check_crunch_time(w, event) ==
    LET lowest == lowest_unresolved(w.threshold_map[event.game_id]) IN
    IF ~cfg.gate \/ event.game_id \in w.gate THEN w
    ELSE IF lowest = <<>> THEN w
    ELSE LET market == w.latest[lowest[1].market_ticker] IN
         IF market = <<>> THEN w
         ELSE IF market[1].yes_ask >= CRUNCH_TIME_ASK_THRESHOLD
         THEN [w EXCEPT !.gate = @ \cup {event.game_id}]
         ELSE w

\* _process_event from "Check crunch time" on
totals_stage(w, event) ==
    IF w.brain.game_state[event.game_id] = "registered"
    THEN scan_entries(check_crunch_time(w, event), event, 1)
    ELSE moneyline_stage(w, event)

\* The markets of a listing that are today's: "-<date prefix>" in the ticker
DATE_PREFIX_PARTS == {"26FEB19G1"}

is_todays(market) ==
    \E k \in 2..Len(market.ticker) : market.ticker[k] \in DATE_PREFIX_PARTS

RECURSIVE tickers_of(_)
tickers_of(markets) ==
    IF markets = <<>> THEN {} ELSE {Head(markets).ticker} \cup tickers_of(Tail(markets))

ml_failed(w, event) ==
    [w EXCEPT !.brain.ml_game_state[event.game_id] = "failed",
              !.brain.ml_game_state_failed_at[event.game_id] = now]

\* _register_moneyline after the market cache is in place
register_moneyline_cached(w, event) ==
    LET cached       == w.brain.ml_todays_markets[event.sport]
        all_markets  == IF cached = <<>> THEN <<>> ELSE cached[1]
        game_markets == filter_markets_for_game(all_markets, event)
        entries      == build_moneyline_entries(game_markets, event)
    IN IF game_markets = <<>> THEN ml_failed(w, event)
       ELSE IF entries = <<>> THEN ml_failed(w, event)
       ELSE [w EXCEPT !.ws = subscribe(@, tickers_of(game_markets)),
                      !.moneyline_map[event.game_id] = entries,
                      !.brain.ml_game_state[event.game_id] = "registered"]

\* _register_moneyline up to its request; Brain is left suspended in
\* _refresh_ml_markets when the cache has to be fetched
register_moneyline(w, event) ==
    IF event.sport \notin cfg.ml_series
    THEN totals_stage(ml_failed(w, event), event)
    ELSE IF w.brain.ml_todays_markets[event.sport] = <<>>
            \/ w.brain.markets_fetched_date # "today"
    THEN [w EXCEPT !.brain.pc = "ml_refresh"]
    ELSE totals_stage(register_moneyline_cached(w, event), event)

\* A faulty retry test that lets every event retry a failed registration.
retry_due_always(failed_at) == TRUE

\* _process_event, the retry test of a failed registration:
\* (time.monotonic() - failed_at) >= _REGISTRATION_RETRY_S
retry_due(failed_at) == now - failed_at >= REGISTRATION_RETRY_S

\* _process_event, "Moneyline registration"
moneyline_registration_stage(w, event) ==
    LET g == event.game_id IN
    IF ~cfg.moneyline THEN totals_stage(w, event)
    ELSE IF w.brain.ml_game_state[g] = "none"
    THEN register_moneyline([w EXCEPT !.brain.ml_game_state[g] = "pending"], event)
    ELSE IF /\ w.brain.ml_game_state[g] = "failed"
            /\ retry_due(w.brain.ml_game_state_failed_at[g])
    THEN register_moneyline(
            [w EXCEPT !.brain.ml_todays_markets[event.sport] = <<>>,
                      !.brain.ml_game_state[g] = "pending"], event)
    ELSE totals_stage(w, event)

failed(w, event) ==
    [w EXCEPT !.brain.game_state[event.game_id] = "failed",
              !.brain.game_state_failed_at[event.game_id] = now]

\* _register_game after the market cache is in place
register_game_cached(w, event) ==
    LET cached       == w.brain.todays_markets[event.sport]
        all_markets  == IF cached = <<>> THEN <<>> ELSE cached[1]
        game_markets == filter_markets_for_game(all_markets, event)
        entries      == IF event.sport = "ncaa_basketball"
                        THEN build_basketball_entries(event.total_score, game_markets)
                        ELSE build_soccer_entries(event.total_score, game_markets)
    IN IF game_markets = <<>> THEN failed(w, event)
       ELSE IF entries = <<>>
       THEN failed([w EXCEPT !.ws = subscribe(@, tickers_of(game_markets))], event)
       ELSE [w EXCEPT !.ws = subscribe(@, tickers_of(game_markets)),
                      !.threshold_map[event.game_id] = entries,
                      !.brain.game_state[event.game_id] = "registered",
                      !.brain.registered_now = TRUE]

\* _register_game up to its request; Brain is left suspended in
\* _refresh_todays_markets when the cache has to be fetched.  With no series
\* pattern for the sport nothing is fetched and the cache stays as it is.
register_game(w, event) ==
    IF w.brain.markets_fetched_date # "today"
       \/ w.brain.todays_markets[event.sport] = <<>>
    THEN IF event.sport \in cfg.series
         THEN [w EXCEPT !.brain.pc = "refresh"]
         ELSE moneyline_registration_stage(
                 register_game_cached(
                    [w EXCEPT !.brain.markets_fetched_date = "today"], event),
                 event)
    ELSE moneyline_registration_stage(register_game_cached(w, event), event)

\* A faulty _process_event that leaves the gate alone on a final event.
process_event_keeps_gate(w, event) ==
    LET g  == event.game_id
        w1 == [w EXCEPT
                 !.brain.prev = IF w.brain.prev_scores[g] = <<>> THEN <<0, 0>>
                                ELSE w.brain.prev_scores[g][1],
                 !.brain.event = <<event>>,
                 !.brain.prev_scores[g] = << <<event.home_score, event.away_score>> >>]
    IN IF event.is_final
       THEN finish([w1 EXCEPT
                      !.threshold_map[g] = <<>>,
                      !.moneyline_map[g] = IF cfg.moneyline THEN <<>> ELSE @,
                      !.brain.prev_scores[g] = <<>>,
                      !.brain.finals_seen = @ \cup {g}])
       ELSE IF w1.brain.game_state[g] = "none"
       THEN register_game([w1 EXCEPT !.brain.game_state[g] = "pending"], event)
       ELSE IF /\ w1.brain.game_state[g] = "failed"
               /\ retry_due(w1.brain.game_state_failed_at[g])
       THEN register_game(
               [w1 EXCEPT !.brain.todays_markets[event.sport] = <<>>,
                          !.brain.game_state[g] = "pending"], event)
       ELSE moneyline_registration_stage(w1, event)

\* BrainAgent._process_event up to its first suspension
process_event(w, event) ==
    LET g  == event.game_id
        w1 == [w EXCEPT
                 !.brain.prev = IF w.brain.prev_scores[g] = <<>> THEN <<0, 0>>
                                ELSE w.brain.prev_scores[g][1],
                 !.brain.event = <<event>>,
                 !.brain.prev_scores[g] = << <<event.home_score, event.away_score>> >>]
    IN IF event.is_final
       THEN finish([w1 EXCEPT
                      !.threshold_map[g] = <<>>,
                      !.moneyline_map[g] = IF cfg.moneyline THEN <<>> ELSE @,
                      !.gate = IF cfg.gate THEN @ \ {g} ELSE @,
                      !.brain.prev_scores[g] = <<>>,
                      !.brain.finals_seen = @ \cup {g}])
       ELSE IF w1.brain.game_state[g] = "none"
       THEN register_game([w1 EXCEPT !.brain.game_state[g] = "pending"], event)
       ELSE IF /\ w1.brain.game_state[g] = "failed"
               /\ retry_due(w1.brain.game_state_failed_at[g])
       THEN register_game(
               [w1 EXCEPT !.brain.todays_markets[event.sport] = <<>>,
                          !.brain.game_state[g] = "pending"], event)
       ELSE moneyline_registration_stage(w1, event)

\* WatcherAgent.handle_update on a world value
handle_update_in(w, update) ==
    [w EXCEPT !.latest[update.market_ticker] = <<update>>,
              !.market_updates = put_nowait(@, MARKET_UPDATES_MAXSIZE, update)]

\* "data.get(key) or default": a missing, null or zero field gives the default
or_default(value, default) == IF value = 0 THEN default ELSE value

\* BrainAgent._fetch_market_via_rest once get_market has answered: the pair of
\* the world it leaves and the MarketUpdate it returns (<<>> for None).  resp
\* is <<data>>, or <<>> when the request raised.
fetch_market_via_rest(w, ticker, resp) ==
    IF resp = <<>> THEN <<w, <<>> >>
    ELSE LET yes_ask == or_default(resp[1].yes_ask, 100)
             yes_bid == or_default(resp[1].yes_bid, 0)
             no_ask  == or_default(resp[1].no_ask, 100)
             no_bid  == or_default(resp[1].no_bid, 0)
             update  == MarketUpdate(ticker, yes_bid, yes_ask, no_bid, no_ask, 0, 0)
         IN IF yes_ask = 100 /\ yes_bid = 0 THEN <<w, <<>> >>
            ELSE <<handle_update_in(w, update), <<update>> >>

brainRest == <<fill_reports, bus_hist, breakerVars, riskAll, oracleVars,
               exchange_ws, ws_hist, cfg, sniper, sniper_hist, build, sched, now>>

\* BrainAgent.run: game_events.get() returns an event and _process_event
\* runs to its first suspension.
BrainGet ==
    /\ brain.pc = "get"
    /\ game_events # <<>>
    /\ game_events' = Tail(game_events)
    /\ Commit(process_event(World, Head(game_events)))
    /\ UNCHANGED brainRest

\* get_markets answers _refresh_todays_markets (resp = <<markets>>) or raises
\* (resp = <<>>); _register_game and _process_event run on.
BrainMarketsResponse(resp) ==
    /\ brain.pc = "refresh"
    /\ LET event  == brain.event[1]
           todays == IF resp = <<>> THEN <<>> ELSE SelectSeq(resp[1], is_todays)
           w1     == [World EXCEPT
                        !.brain.todays_markets[event.sport] = <<todays>>,
                        !.brain.markets_fetched_date = "today"]
       IN Commit(moneyline_registration_stage(register_game_cached(w1, event), event))
    /\ UNCHANGED <<game_events, brainRest>>

\* get_markets answers _refresh_ml_markets or raises; _register_moneyline and
\* _process_event run on.
BrainMLMarketsResponse(resp) ==
    /\ brain.pc = "ml_refresh"
    /\ LET event  == brain.event[1]
           todays == IF resp = <<>> THEN <<>> ELSE SelectSeq(resp[1], is_todays)
           w1     == [World EXCEPT
                        !.brain.ml_todays_markets[event.sport] = <<todays>>]
       IN Commit(totals_stage(register_moneyline_cached(w1, event), event))
    /\ UNCHANGED <<game_events, brainRest>>

\* get_market answers the REST fallback or raises; _evaluate_and_signal runs
\* on from "if market is None" and the scan continues with the next entry.
BrainRestResponse(resp) ==
    /\ brain.pc = "rest"
    /\ LET event == brain.event[1]
           entry == threshold_map[event.game_id][brain.idx]
           r     == fetch_market_via_rest(World, entry.market_ticker, resp)
           w1    == IF r[2] = <<>> THEN r[1]
                    ELSE signal_if_edge(r[1], event, entry, r[2][1])
       IN Commit(scan_entries(w1, event, brain.idx + 1))
    /\ UNCHANGED <<game_events, brainRest>>

-----------------------------------------------------------------------------
(***************************************************************************)
(* SniperAgent                                                             *)
(***************************************************************************)

InitSniper ==
    /\ sniper = [pc |-> "get", signal |-> <<>>]
    /\ sniper_hist = [got |-> <<>>, orders |-> <<>>, reports |-> <<>>]

FillReport(signal, order_id, status, filled_qty, avg_price) ==
    [signal_id |-> signal.signal_id, order_id |-> order_id,
     market_ticker |-> signal.market_ticker, side |-> signal.side,
     filled_quantity |-> filled_qty, avg_price_cents |-> avg_price,
     status |-> status]

sniperRest == <<game_events, market_updates, bus_hist, riskAll, oracleVars,
                wsVars, brain, threshold_map, moneyline_map, gate, cfg,
                signal_log, build, sched, now>>

\* SniperAgent._publish_fill, and the record of the call: the report, how
\* _execute came to it, and the breaker before and after _execute.
publish_fill(report, outcome, resp, after) ==
    /\ publish_fill_report(report)
    /\ sniper_hist' = [sniper_hist EXCEPT
          !.reports = Append(@, [report |-> report, outcome |-> outcome,
                                 resp |-> resp, before |-> breaker,
                                 after |-> after])]

\* SniperAgent.run: trade_signals.get() returns a signal; _execute drops it
\* with a rejected fill when the breaker is open, else sends the order.
SniperGet ==
    /\ sniper.pc = "get"
    /\ trade_signals # <<>>
    /\ trade_signals' = Tail(trade_signals)
    /\ LET signal == Head(trade_signals)
           got    == [signal_id |-> signal.signal_id, open |-> is_open(breaker)]
       IN IF is_open(breaker)
          THEN /\ publish_fill_report(FillReport(signal, "", "rejected", 0, 0))
               /\ sniper_hist' = [sniper_hist EXCEPT
                     !.got = Append(@, got),
                     !.reports = Append(@,
                         [report |-> FillReport(signal, "", "rejected", 0, 0),
                          outcome |-> "open", resp |-> <<>>,
                          before |-> breaker,
                          after |-> breaker])]
               /\ UNCHANGED sniper
          ELSE /\ sniper' = [pc |-> "place_order", signal |-> <<signal>>]
               /\ sniper_hist' = [sniper_hist EXCEPT
                     !.got = Append(@, got),
                     !.orders = Append(@, [signal_id |-> signal.signal_id,
                                            ticker |-> signal.market_ticker,
                                            side |-> signal.side,
                                            quantity |-> signal.quantity,
                                            limit_price |-> signal.max_price_cents])]
               /\ UNCHANGED fill_reports
    /\ UNCHANGED <<breakerVars, sniperRest>>

\* A faulty lookup that gives 0, not the default, for an absent key.
get_or_zero(field, default) == IF field = <<>> THEN 0 ELSE field[1]

\* dict.get(key, default) on a response field kept as <<value>>, or <<>> when
\* the key is absent
get_or(field, default) == IF field = <<>> THEN default ELSE field[1]

\* place_order answers (resp = <<order>>) or raises (resp = <<>>).
SniperOrderResponse(resp) ==
    /\ sniper.pc = "place_order"
    /\ LET signal == sniper.signal[1] IN
       IF resp = <<>>
       THEN /\ breaker' = record_failure(breaker, "error")
            /\ breaker_hist' = [breaker_hist EXCEPT !.op = "record_failure",
                                                    !.fails = @ + 1]
            /\ publish_fill(FillReport(signal, "", "rejected", 0, 0), "raised",
                            resp, record_failure(breaker, "error"))
       ELSE /\ breaker' = record_success(breaker)
            /\ breaker_hist' = [breaker_hist EXCEPT !.op = "record_success",
                                                    !.fails = 0]
            /\ publish_fill(
                  FillReport(signal, get_or(resp[1].order_id, ""),
                             get_or(resp[1].status, "unknown"),
                             get_or(resp[1].count_filled, 0),
                             get_or(resp[1].avg_price, signal.max_price_cents)),
                  "returned", resp, record_success(breaker))
    /\ sniper' = [pc |-> "get", signal |-> <<>>]
    /\ UNCHANGED <<trade_signals, sniperRest>>

-----------------------------------------------------------------------------
(***************************************************************************)
(* Specifications                                                          *)
(***************************************************************************)

\* The tasks main.run() creates, and the feed tasks OracleAgent.run creates.
AgentTasks == {"oracle", "watcher", "brain", "sniper", "shield"}
FeedTasks  == {"oracle-espn", "oracle-sportsdata_io"}

\* All tasks are launched and main.run() waits for the shutdown event.  A
\* task is "running", "cancelling" once cancel() was called on it, or "done";
\* at[t] is the suspension point at which task t met its CancelledError.
InitSched ==
    sched = [main |-> "wait",
             task |-> [t \in AgentTasks \cup FeedTasks |-> "running"],
             at   |-> [t \in AgentTasks \cup FeedTasks |-> ""]]

\* No builder has been called.
InitBuild ==
    build = [sport |-> "", current_total |-> 0, kalshi_markets |-> <<>>,
             entries |-> <<>>]

Init ==
    /\ InitBus
    /\ InitBreaker
    /\ InitClock
    /\ InitRisk
    /\ InitOracle
    /\ InitWS
    /\ InitBrain
    /\ InitSniper
    /\ InitBuild
    /\ InitSched

(* ---- EventBus alone: producers and consumers of one channel ---- *)

NextBus ==
    \/ \E ch \in Channels : BusPublish(ch) /\ UNCHANGED <<breakerVars, riskAll, oracleVars, wsVars, pipeVars, now>>
    \/ \E ch \in Channels : BusGet(ch) /\ UNCHANGED <<breakerVars, riskAll, oracleVars, wsVars, pipeVars, now>>

SpecBus == Init /\ [][NextBus]_vars

(* ---- CircuitBreaker alone: its four operations and the clock ---- *)

NextBreaker ==
    \/ BreakerRecordFailure /\ UNCHANGED <<busVars, bus_hist, riskAll, oracleVars, wsVars, pipeVars, now>>
    \/ BreakerRecordSuccess /\ UNCHANGED <<busVars, bus_hist, riskAll, oracleVars, wsVars, pipeVars, now>>
    \/ BreakerReset /\ UNCHANGED <<busVars, bus_hist, riskAll, oracleVars, wsVars, pipeVars, now>>
    \/ BreakerTrip /\ UNCHANGED <<busVars, bus_hist, riskAll, oracleVars, wsVars, pipeVars, now>>
    \/ Tick /\ UNCHANGED <<busVars, bus_hist, breakerVars, riskAll, oracleVars, wsVars, pipeVars>>

SpecBreaker == Init /\ [][NextBreaker]_vars

(* ---- RiskState and Shield: fill reports, settlements, resume ---- *)

\* How many fill reports and settlements the risk harness feeds.
MaxFills       == 3
MaxSettlements == 2

RiskTickers == {T5}

\* The reports Sniper publishes: fills at two prices, a partial fill, and the
\* rejected report of a failed or dropped order.
RiskReports ==
    [market_ticker : RiskTickers, status : {"filled"},
     filled_quantity : {1, 2}, avg_price_cents : {40}]
    \cup [market_ticker : RiskTickers, status : {"filled"},
          filled_quantity : {2}, avg_price_cents : {90}]
    \cup [market_ticker : RiskTickers, status : {"partial"},
          filled_quantity : {1}, avg_price_cents : {40}]
    \cup [market_ticker : RiskTickers, status : {"rejected"},
          filled_quantity : {0}, avg_price_cents : {0}]

\* A fill report reaches the bus (in the pipeline Sniper publishes it).
InjectFill(report) ==
    /\ risk_hist.injected < MaxFills
    /\ publish_fill_report(report)
    /\ risk_hist' = [risk_hist EXCEPT !.injected = @ + 1]
    /\ UNCHANGED <<game_events, market_updates, trade_signals, riskVars>>

RiskShieldRun ==
    /\ ShieldRun
    /\ UNCHANGED <<game_events, market_updates, trade_signals, risk_hist>>

\* RiskState.apply_settlement, called with a settled position.
RiskSettle(pnl_cents, cost_cents, quantity) ==
    /\ risk_hist.settled < MaxSettlements
    /\ risk' = apply_settlement(risk, pnl_cents, cost_cents, quantity)
    /\ risk_hist' = [risk_hist EXCEPT !.settled = @ + 1]
    /\ UNCHANGED <<busVars, game_trade_count>>

\* RiskState.resume, the operator's call.
RiskResume ==
    /\ risk.is_halted
    /\ risk' = resume(risk)
    /\ UNCHANGED <<busVars, game_trade_count, risk_hist>>

NextRisk ==
    \/ \E r \in RiskReports : InjectFill(r) /\ UNCHANGED <<bus_hist, breakerVars, oracleVars, wsVars, pipeVars, now>>
    \/ RiskShieldRun /\ UNCHANGED <<bus_hist, breakerVars, oracleVars, wsVars, pipeVars, now>>
    \/ \E pnl \in {-60, 60}, cq \in {<<40, 1>>, <<90, 2>>} :
          RiskSettle(pnl, cq[1], cq[2]) /\ UNCHANGED <<bus_hist, breakerVars, oracleVars, wsVars, pipeVars, now>>
    \/ RiskResume /\ UNCHANGED <<bus_hist, breakerVars, oracleVars, wsVars, pipeVars, now>>

SpecRisk == Init /\ [][NextRisk]_vars

(* ---- Feed clients and Oracle: polls of two feeds over two games ---- *)

OracleScores == {<<0, 0>>, <<5, 0>>}

NextOracle ==
    \E f \in Feeds : \E raw \in RawGames(Games, OracleScores, {2}, {"live", "final", "scheduled"}) :
        /\ FeedPoll(f, raw)
        /\ UNCHANGED <<poll_log, market_updates, trade_signals, fill_reports, bus_hist, breakerVars, riskAll, wsVars, pipeVars, now>>

SpecOracle == Init /\ [][NextOracle]_vars

\* ---- the WebSocket client and the Watcher on their own ----

MaxWsFrames == 3
MaxConns    == 1

WsTickers == {T5}
WsSeqs    == {0, 1, 2}
WsBooks   == { << <<40, 5>> >>, << <<40, 0>>, <<55, 3>> >> }

WsFrame(type, ticker, seq, yes, no) ==
    [type |-> type, ticker |-> ticker, seq |-> seq, yes |-> yes, no |-> no]

WsFrames ==
    { WsFrame(ty, <<t>>, sq, y, <<>>) :
        ty \in {"orderbook_snapshot", "orderbook_delta"},
        t \in WsTickers, sq \in WsSeqs, y \in WsBooks }
    \cup { WsFrame("subscribed", <<>>, 0, <<>>, <<>>),
           WsFrame("orderbook_delta", <<>>, 1, <<>>, <<>>) }

\* WatcherAgent.subscribe_tickers -> KalshiWSClient.subscribe
WSSubscribe(tickers) ==
    /\ ws' = subscribe(ws, tickers)
    /\ ws_hist' = [ws_hist EXCEPT !.subscribes = @ + 1,
                                  !.subscribe_calls = Append(@, tickers)]
    /\ UNCHANGED <<exchange_ws, latest, market_updates>>

\* KalshiWSClient.unsubscribe
WSUnsubscribe(tickers) ==
    /\ ws' = unsubscribe(ws, tickers)
    /\ ws' # ws
    /\ UNCHANGED <<exchange_ws, latest, ws_hist, market_updates>>

wsRest == <<game_events, trade_signals, fill_reports, bus_hist, breakerVars,
            riskAll, oracleVars, pipeVars, now>>

NextWS ==
    \/ WSConnectOk /\ exchange_ws.conn < MaxConns /\ UNCHANGED wsRest
    \/ \E frame \in WsFrames :
          WSMessage(frame) /\ ws_hist.frames < MaxWsFrames /\ UNCHANGED wsRest
    \/ WSCloseClean /\ UNCHANGED wsRest
    \/ WSCloseError /\ UNCHANGED wsRest
    \/ WSSleepDone /\ UNCHANGED wsRest
    \/ WSImmediateSend /\ UNCHANGED wsRest
    \/ \E t \in WsTickers : WSSubscribe({t}) /\ ws' # ws /\ UNCHANGED wsRest

SpecWS == Init /\ [][NextWS]_vars

\* ---- the pipeline: feed -> Oracle -> Brain -> Sniper -> Shield.  The
\* ---- exchange's socket stays down, so the Watcher's cache is filled by the
\* ---- REST fallback alone. ----

PipeScores == {<<0, 0>>, <<5, 0>>, <<10, 0>>}

PipeRaws ==
    RawGames({"g1"}, PipeScores, {2}, {"live"})
    \cup RawGames({"g1"}, {<<10, 0>>}, {2}, {"final"})

\* What the exchange lists for the two series.
TotalsListing ==
    << Market(T10, G1Title), Market(TX, G1Title), Market(T5, G1Title) >>

MoneylineListing == << Market(ML1, G1Title) >>

\* What get_market may return: books whose ask has edge (1, 40, 88), a book
\* whose ask has none (91), and the empty book of a halted market.
RestMarkets ==
    { [yes_ask |-> 40, yes_bid |-> 38, no_ask |-> 62, no_bid |-> 60],
      [yes_ask |-> 88, yes_bid |-> 86, no_ask |-> 14, no_bid |-> 12],
      [yes_ask |-> 91, yes_bid |-> 89, no_ask |-> 11, no_bid |-> 9],
      [yes_ask |-> 1, yes_bid |-> 0, no_ask |-> 0, no_bid |-> 99],
      [yes_ask |-> 0, yes_bid |-> 0, no_ask |-> 0, no_bid |-> 0] }

OrderResponses(signal) ==
    { [order_id |-> <<"o">>, status |-> <<"filled">>,
       count_filled |-> <<signal.quantity>>, avg_price |-> <<>>] }

pipeFeedRest == <<poll_log, market_updates, trade_signals, fill_reports, bus_hist,
                  breakerVars, riskAll, wsVars, pipeVars, now>>

FeedStep(raws) ==
    \E raw \in raws : FeedPoll("espn", raw) /\ UNCHANGED pipeFeedRest

BrainStep(books) ==
    \/ BrainGet
    \/ \E resp \in {<<TotalsListing>>, <<>>} : BrainMarketsResponse(resp)
    \/ \E resp \in {<<MoneylineListing>>, <<>>} : BrainMLMarketsResponse(resp)
    \/ \E resp \in {<<m>> : m \in books} \cup {<<>>} : BrainRestResponse(resp)

SniperStep ==
    \/ SniperGet
    \/ /\ sniper.pc = "place_order"
       /\ \E resp \in {<<o>> : o \in OrderResponses(sniper.signal[1])} \cup {<<>>} :
             SniperOrderResponse(resp)

ShieldStep ==
    ShieldRun /\ UNCHANGED <<game_events, market_updates, trade_signals,
                             bus_hist, risk_hist, breakerVars, oracleVars,
                             wsVars, pipeVars, now>>

ClockStep ==
    Tick /\ UNCHANGED <<busVars, bus_hist, breakerVars, riskAll, oracleVars,
                        wsVars, pipeVars>>

Next ==
    \/ FeedStep(PipeRaws)
    \/ BrainStep(RestMarkets)
    \/ SniperStep
    \/ ShieldStep
    \/ ClockStep

Spec == Init /\ [][Next]_vars

\* ---- the moneyline path: feed -> Oracle -> Brain, with the WebSocket
\* ---- client filling the Watcher's cache.  Nothing takes the signals off
\* ---- the bus. ----

MaxMLFrames == 1

MLScores == {<<0, 0>>, <<10, 0>>, <<20, 0>>}

MLRaws == RawGames({"g1"}, MLScores, {1, 2}, {"live"})

\* What get_market returns on the moneyline path: a book or the empty book.
MLRestMarkets ==
    { [yes_ask |-> 40, yes_bid |-> 38, no_ask |-> 62, no_bid |-> 60],
      [yes_ask |-> 0, yes_bid |-> 0, no_ask |-> 0, no_bid |-> 0] }

MLFrames ==
    { WsFrame("orderbook_snapshot", <<ML1>>, 1, << <<70, 5>> >>, <<>>),
      WsFrame("orderbook_snapshot", <<ML1>>, 2, << <<87, 5>> >>, <<>>) }

pipeWsRest == <<game_events, trade_signals, fill_reports, bus_hist, breakerVars,
                riskAll, oracleVars, pipeVars, now>>

NextML ==
    \/ FeedStep(MLRaws)
    \/ BrainStep(MLRestMarkets)
    \/ WSConnectOk /\ exchange_ws.conn < MaxConns /\ UNCHANGED pipeWsRest
    \/ \E frame \in MLFrames :
          WSMessage(frame) /\ ws_hist.frames < MaxMLFrames /\ UNCHANGED pipeWsRest
    \/ WSImmediateSend /\ UNCHANGED pipeWsRest
    \/ ClockStep

SpecML == Init /\ [][NextML]_vars

-----------------------------------------------------------------------------
(***************************************************************************)
(* Properties                                                              *)
(***************************************************************************)

\* ---- the totals path with a live cache: feed -> Oracle -> Brain, with the
\* ---- WebSocket client filling the Watcher's cache for the threshold
\* ---- markets.  Nothing takes the signals off the bus. ----

\* How many frames the exchange sends on the totals path.
MaxTotalsFrames == 1

TotalsFrames ==
    { WsFrame("orderbook_snapshot", <<T5>>, 1, << <<59, 5>> >>, <<>>),
      WsFrame("orderbook_snapshot", <<T5>>, 1, << <<60, 5>> >>, <<>>),
      WsFrame("orderbook_snapshot", <<T10>>, 1, << <<88, 5>> >>, <<>>),
      WsFrame("orderbook_snapshot", <<T10>>, 1, << <<1, 5>> >>, <<>>) }

NextTotals ==
    \/ FeedStep(PipeRaws)
    \/ BrainStep(MLRestMarkets)
    \/ WSConnectOk /\ exchange_ws.conn < MaxConns /\ UNCHANGED pipeWsRest
    \/ \E frame \in TotalsFrames :
          WSMessage(frame) /\ ws_hist.frames < MaxTotalsFrames /\ UNCHANGED pipeWsRest
    \/ WSImmediateSend /\ UNCHANGED pipeWsRest

SpecTotals == Init /\ [][NextTotals]_vars

\* ---- Sniper alone: signals arrive on the bus as Brain would publish them,
\* ---- and the exchange answers each order or the request raises. ----

\* How many trade signals reach the bus.
MaxSignals == 4

\* What place_order may return for a signal's order.
SniperResponses(signal) ==
    { [order_id |-> <<"o1">>, status |-> <<"filled">>,
       count_filled |-> <<signal.quantity>>, avg_price |-> <<88>>],
      [order_id |-> <<"o2">>, status |-> <<"resting">>,
       count_filled |-> <<0>>, avg_price |-> <<>>],
      [order_id |-> <<>>, status |-> <<>>, count_filled |-> <<>>,
       avg_price |-> <<>>] }

\* Brain publishes a signal for threshold T5 (publish_trade_signal).
InjectSignalUpTo(quantity, most) ==
    /\ Len(signal_log) < most
    /\ LET signal == ExecuteTrade(Len(signal_log) + 1, T5, "yes", 90, quantity,
                                  "g1", now)
       IN /\ publish_trade_signal(signal)
          /\ signal_log' = Append(signal_log,
                [kind |-> "totals", team_side |-> "", game_id |-> "g1",
                 market_ticker |-> T5, side |-> "yes", max_price_cents |-> 90,
                 quantity |-> quantity, generated_at |-> now, yes_ask |-> 88,
                 halted |-> risk.is_halted])
    /\ UNCHANGED <<game_events, market_updates, fill_reports, bus_hist,
                   breakerVars, riskAll, oracleVars, wsVars, brain,
                   threshold_map, moneyline_map, gate, cfg, sniper,
                   sniper_hist, build, sched, now>>

InjectSignal(quantity) == InjectSignalUpTo(quantity, MaxSignals)

NextSniper ==
    \/ \E q \in {1, 2} : InjectSignal(q)
    \/ SniperGet
    \/ /\ sniper.pc = "place_order"
       /\ \E resp \in {<<o>> : o \in SniperResponses(sniper.signal[1])} \cup {<<>>} :
             SniperOrderResponse(resp)

SpecSniper == Init /\ [][NextSniper]_vars

NoDuplicates(sq) == \A i, j \in 1..Len(sq) : i # j => sq[i] # sq[j]

\* C3: Oracle publishes at most one score event for each distinct
\* (game_id, home_score, away_score) triple, whatever the feeds deliver and
\* in whatever order, also when a pair recurs after a different one.
C3_OnePublishPerTriple == NoDuplicates(oracle_hist.published)

C7_ChannelFifo ==
    \A ch \in Channels :
        bus_hist.delivered[ch] \o chan(ch) = bus_hist.accepted[ch]

\* C7 witness: a channel that overflowed once, with events both delivered
\* and still queued.
C7_Witness ==
    \E ch \in Channels :
        /\ bus_hist.published[ch] > Len(bus_hist.accepted[ch])
        /\ Len(bus_hist.delivered[ch]) >= 2
        /\ Len(chan(ch)) >= 2

\* C9: no channel ever holds more than its capacity (50, 200, 10, 100); a
\* publish on a full channel is a step the publisher can always take (it does
\* not wait), and it leaves the channel's contents as they were.
C9_CapacityAndDrop ==
    /\ [](\A ch \in Channels : Len(chan(ch)) <= maxsize(ch))
    /\ [](\A ch \in Channels :
            (/\ Len(chan(ch)) = maxsize(ch)
             /\ OthersUntouched(ch)
             /\ bus_hist.published[ch] < maxsize(ch) + BusExtra)
            => ENABLED BusPublish(ch))
    /\ [][\A ch \in Channels :
            (/\ bus_hist'.published[ch] # bus_hist.published[ch]
             /\ Len(chan(ch)) = maxsize(ch))
            => chan(ch)' = chan(ch)]_vars

\* C9 witness: a full channel on which a publish has been dropped.
C9_Witness ==
    \E ch \in Channels :
        /\ Len(chan(ch)) = maxsize(ch)
        /\ bus_hist.published[ch] = maxsize(ch) + 1
        /\ Len(bus_hist.accepted[ch]) = maxsize(ch)

\* C10: a record_failure call on a Closed breaker opens it exactly when it is
\* the failure_threshold-th call since the last record_success or reset;
\* record_success zeroes the counter and leaves the state alone; an Open
\* breaker becomes Closed only by reset().
C10_BreakerTrips ==
    [][/\ (breaker_hist'.op = "record_failure" /\ is_closed(breaker))
            => (is_open(breaker') <=>
                    breaker_hist'.fails = breaker.failure_threshold)
       /\ breaker_hist'.op = "record_success"
            => (breaker'.failure_count = 0 /\ breaker'.state = breaker.state)
       /\ (is_open(breaker) /\ is_closed(breaker'))
            => breaker_hist'.op = "reset"
      ]_breakerVars

\* C10 witness: the third failure in a row has just opened the breaker.
C10_Witness ==
    /\ is_open(breaker)
    /\ breaker_hist.op = "record_failure"
    /\ breaker_hist.fails = FAILURE_THRESHOLD
    /\ breaker.failure_count = FAILURE_THRESHOLD

\* The step handled one more frame, and it was a book frame for ticker t.
HandledBookFrame(t) ==
    /\ ws_hist'.frames = ws_hist.frames + 1
    /\ is_book_frame(ws_hist'.last[1])
    /\ ws_hist'.last[1].ticker[1] = t

TotalsSignals == {i \in 1..Len(signal_log) : signal_log[i].kind = "totals"}

MoneylineSignals == {i \in 1..Len(signal_log) : signal_log[i].kind = "moneyline"}

\* C1: for every threshold entry (game_id, market_ticker), Brain publishes at
\* most one totals trade signal over the whole run, whatever score events it
\* processes and wherever the evaluation was suspended on the REST fallback.
C1_AtMostOneTotalsSignal ==
    \A i, j \in TotalsSignals :
        (/\ signal_log[i].game_id = signal_log[j].game_id
         /\ signal_log[i].market_ticker = signal_log[j].market_ticker)
        => i = j

\* The entry for T5 signalled at the 5-0 event after a REST fallback, and
\* Brain has since processed the 10-0 event, which reaches T5's trigger again.
C1_Witness ==
    /\ oracle_hist.published = << <<"g1", 0, 0>>, <<"g1", 5, 0>>, <<"g1", 10, 0>> >>
    /\ game_events = <<>>
    /\ brain.pc = "get"
    /\ brain.prev_scores["g1"] = << <<10, 0>> >>
    /\ latest[T5] # <<>>
    /\ \E i \in TotalsSignals :
          /\ signal_log[i].market_ticker = T5
          /\ \E j \in TotalsSignals : j > i /\ signal_log[j].market_ticker = T10

\* C2: no trade signal, totals or moneyline, is published while
\* RiskState.is_halted is true (nothing in a run calls resume()).
C2_NoSignalWhileHalted ==
    \A i \in 1..Len(signal_log) : ~signal_log[i].halted

\* C4: every signal Brain publishes has
\* max_price_cents <= 100 x (1 - fee_rate) - min_edge_cents.
C4_EdgeInvariant ==
    \A i \in 1..Len(signal_log) :
        100 * signal_log[i].max_price_cents
            <= net_payout_x100 - 100 * cfg.min_edge_cents

\* C5: any two signals Brain publishes for the same moneyline entry are
\* generated at least 45 seconds apart.
C5_MoneylineCooldown ==
    \A i, j \in MoneylineSignals :
        (/\ i < j
         /\ signal_log[i].game_id = signal_log[j].game_id
         /\ signal_log[i].market_ticker = signal_log[j].market_ticker
         /\ signal_log[i].team_side = signal_log[j].team_side)
        => signal_log[j].generated_at - signal_log[i].generated_at
              >= SIGNAL_COOLDOWN_S

\* Two signals for the home entry of ML1, the second one exactly when the
\* cooldown of the first ran out.
C5_Witness ==
    \E i, j \in MoneylineSignals :
        /\ i < j
        /\ signal_log[i].market_ticker = ML1
        /\ signal_log[j].market_ticker = ML1
        /\ signal_log[i].team_side = "home"
        /\ signal_log[j].team_side = "home"
        /\ signal_log[j].generated_at = signal_log[i].generated_at + SIGNAL_COOLDOWN_S


\* The place_order calls and the published reports for one signal id.
OrdersFor(id) == {k \in 1..Len(sniper_hist.orders) : sniper_hist.orders[k].signal_id = id}
ReportsFor(id) ==
    {k \in 1..Len(sniper_hist.reports) : sniper_hist.reports[k].report.signal_id = id}

\* The last FAILURE_THRESHOLD reports up to k all came from a raised place_order.
FailedInARow(k) ==
    /\ k >= FAILURE_THRESHOLD
    /\ \A m \in (k - FAILURE_THRESHOLD + 1)..k :
          sniper_hist.reports[m].outcome = "raised"

\* C11: a signal Sniper consumes while its breaker is Open causes no
\* place_order call and exactly one fill report, rejected with filled
\* quantity 0; after 3 place_order failures in a row the breaker is Open, it
\* is never closed again, and every later signal is dropped in that way.
C11_OpenBreakerDrops ==
    /\ [](\A i \in 1..Len(sniper_hist.got) :
            sniper_hist.got[i].open =>
               /\ OrdersFor(sniper_hist.got[i].signal_id) = {}
               /\ Cardinality(ReportsFor(sniper_hist.got[i].signal_id)) = 1
               /\ \A k \in ReportsFor(sniper_hist.got[i].signal_id) :
                     /\ sniper_hist.reports[k].report.status = "rejected"
                     /\ sniper_hist.reports[k].report.filled_quantity = 0)
    /\ [](\A k \in 1..Len(sniper_hist.reports) :
            FailedInARow(k) =>
               /\ is_open(breaker)
               /\ \A m \in (k + 1)..Len(sniper_hist.reports) :
                     /\ sniper_hist.reports[m].outcome = "open"
                     /\ sniper_hist.reports[m].report.status = "rejected"
                     /\ sniper_hist.reports[m].report.filled_quantity = 0)
    /\ [][is_open(breaker) => is_open(breaker')]_vars

\* Three orders failed in a row, and the fourth signal was dropped with a
\* rejected fill.
C11_Witness ==
    /\ Len(sniper_hist.reports) = 4
    /\ FailedInARow(3)
    /\ sniper_hist.reports[4].outcome = "open"
    /\ Len(sniper_hist.orders) = 3
    /\ sniper.pc = "get"

ShieldTakes ==
    fill_reports # <<>> /\ fill_reports' = Tail(fill_reports)

IsFill(report) == report.status \in {"filled", "partial"}

\* C13: when Shield processes a report whose status is neither filled nor
\* partial, RiskState and the per-ticker counters are unchanged (so no limit
\* check ran); when it is filled or partial, open_exposure_cents grows by
\* avg_price_cents x filled_quantity, trades_today by 1, and
\* daily_realized_pnl_cents is unchanged.
C13_ProcessFillEffect ==
    [][ShieldTakes =>
          LET report == Head(fill_reports) IN
          IF ~IsFill(report)
          THEN risk' = risk /\ game_trade_count' = game_trade_count
          ELSE /\ risk'.open_exposure_cents = risk.open_exposure_cents
                      + report.avg_price_cents * report.filled_quantity
               /\ risk'.trades_today = risk.trades_today + 1
               /\ risk'.daily_realized_pnl_cents = risk.daily_realized_pnl_cents
      ]_vars

\* Shield has processed two reports: one that was no fill, and one fill of
\* two contracts at 90 cents.
C13_Witness ==
    /\ risk_hist.injected = 2
    /\ risk_hist.settled = 0
    /\ fill_reports = <<>>
    /\ risk.trades_today = 1
    /\ risk.open_exposure_cents = 180

C14_CapReachedNoHalt ==
    /\ ~risk.is_halted
    /\ risk.last_circuit_break_reason = <<>>
    /\ \E t \in DOMAIN game_trade_count :
          game_trade_count[t] >= ShieldConfig.max_trades_per_game

\* C15: some fill report drives daily realized P&L below -max_daily_loss
\* when Shield processes it (and Shield then halts on the daily loss).
C15_FillBreachesDailyLoss ==
    \E report \in RiskReports :
        LET after == risk_after_fill(risk, report, 1) IN
        /\ after.daily_realized_pnl_cents < -ShieldConfig.max_daily_loss_cents
        /\ after.is_halted

\* No fill report Shield processes changes daily realized P&L.
FillLeavesPnl ==
    \A report \in RiskReports :
        risk_after_fill(risk, report, 1).daily_realized_pnl_cents
            = risk.daily_realized_pnl_cents


\* The step published a totals signal for ticker t of game g.
SignalsFor(g, t) ==
    \E k \in (Len(signal_log) + 1)..Len(signal_log') :
        /\ signal_log'[k].kind = "totals"
        /\ signal_log'[k].game_id = g
        /\ signal_log'[k].market_ticker = t

\* The step is the first line of _evaluate_and_signal for entry i of game g.
Flips(g, i) ==
    /\ i <= Len(threshold_map'[g])
    /\ ~threshold_map[g][i].already_triggered
    /\ threshold_map'[g][i].already_triggered

\* Brain is suspended in the REST fallback for entry i of game g.
InRestFor(g, i) ==
    brain.pc = "rest" /\ brain.idx = i /\ brain.event[1].game_id = g

\* An ask that leaves less than min_edge_cents of edge.
LacksEdge(ask) == net_payout_x100 - 100 * ask < 100 * cfg.min_edge_cents

\* C17: an evaluation that is suppressed (Shield halted when the entry is
\* taken up, no market data after the REST fallback, or an ask without edge)
\* publishes no signal; an entry that is already_triggered stays so; and a
\* signal is only ever published for an entry that was not yet triggered or
\* whose evaluation is still waiting for the REST fallback, so no later event
\* publishes one for a suppressed entry.
C17_SuppressedStaysSilent ==
    [][\A g \in Games :
         /\ \A i \in 1..Len(threshold_map[g]) :
               LET entry == threshold_map[g][i]
                   t     == entry.market_ticker
               IN /\ (entry.already_triggered /\ i <= Len(threshold_map'[g]))
                        => threshold_map'[g][i].already_triggered
                  /\ (Flips(g, i) /\ risk.is_halted) => ~SignalsFor(g, t)
                  /\ (Flips(g, i) /\ latest[t] # <<>> /\ LacksEdge(latest[t][1].yes_ask))
                        => ~SignalsFor(g, t)
                  /\ (InRestFor(g, i) /\ brain'.pc # "rest" /\ latest'[t] = <<>>)
                        => ~SignalsFor(g, t)
                  /\ (InRestFor(g, i) /\ latest'[t] # <<>>
                        /\ LacksEdge(latest'[t][1].yes_ask))
                        => ~SignalsFor(g, t)
                  /\ SignalsFor(g, t) =>
                        (~entry.already_triggered \/ InRestFor(g, i))
         /\ \A t \in Tickers :
               SignalsFor(g, t) =>
                  \E i \in 1..Len(threshold_map[g]) :
                      threshold_map[g][i].market_ticker = t
      ]_vars

\* The REST fallback for T5 gave an ask with no edge at the 5-0 event; the
\* 10-0 event, which reaches T5's trigger again, has been processed since,
\* and no signal for T5 was ever published.
C17_Witness ==
    /\ oracle_hist.published = << <<"g1", 0, 0>>, <<"g1", 5, 0>>, <<"g1", 10, 0>> >>
    /\ game_events = <<>>
    /\ brain.pc = "get"
    /\ brain.prev_scores["g1"] = << <<10, 0>> >>
    /\ latest[T5] # <<>>
    /\ LacksEdge(latest[T5][1].yes_ask)
    /\ \E i \in 1..Len(threshold_map["g1"]) :
          /\ threshold_map["g1"][i].market_ticker = T5
          /\ threshold_map["g1"][i].already_triggered
    /\ \A k \in TotalsSignals : signal_log[k].market_ticker # T5
    /\ \E k \in TotalsSignals : signal_log[k].market_ticker = T10


\* clamp(x, lo, hi)
Clamp(x, lo, hi) == IF x < lo THEN lo ELSE IF x > hi THEN hi ELSE x

\* The step published exactly one totals signal for ticker t of game g, with
\* the side, limit price and quantity that the ask calls for.
OneSignalAt(g, t, ask) ==
    LET new == {k \in (Len(signal_log) + 1)..Len(signal_log') :
                   /\ signal_log'[k].kind = "totals"
                   /\ signal_log'[k].game_id = g
                   /\ signal_log'[k].market_ticker = t}
    IN /\ Cardinality(new) = 1
       /\ \A k \in new :
             /\ signal_log'[k].side = "yes"
             /\ signal_log'[k].yes_ask = ask
             /\ signal_log'[k].max_price_cents =
                   Min(ask + cfg.max_slippage_cents,
                       max_tradeable_price(cfg.min_edge_cents))
             /\ signal_log'[k].quantity =
                   Clamp(cfg.max_spend_per_trade_cents \div Max(ask, 1), 1,
                         cfg.max_quantity)

\* C16: when a threshold that has not fired is crossed while the system is
\* not halted and the cached yes_ask has edge, exactly one signal is
\* published for it, with side yes, max_price_cents = min(yes_ask +
\* max_slippage_cents, max_tradeable_price(min_edge_cents)) and quantity =
\* clamp(max_spend_per_trade_cents div max(yes_ask, 1), 1, max_quantity); and
\* every totals signal has these values, 90 for the limit price at yes_ask
\* 88, slippage 2 and min edge 3.
C16_SignalFields ==
    /\ [](\A k \in TotalsSignals :
            LET ask == signal_log[k].yes_ask IN
            /\ signal_log[k].side = "yes"
            /\ signal_log[k].max_price_cents =
                  Min(ask + cfg.max_slippage_cents,
                      max_tradeable_price(cfg.min_edge_cents))
            /\ signal_log[k].quantity =
                  Clamp(cfg.max_spend_per_trade_cents \div Max(ask, 1), 1,
                        cfg.max_quantity)
            /\ (ask = 88 /\ cfg.max_slippage_cents = 2 /\ cfg.min_edge_cents = 3)
                  => signal_log[k].max_price_cents = 90)
    /\ [][\A g \in Games : \A i \in 1..Len(threshold_map[g]) :
            LET t == threshold_map[g][i].market_ticker IN
            (/\ Flips(g, i)
             /\ ~risk.is_halted
             /\ latest[t] # <<>>
             /\ ~LacksEdge(latest[t][1].yes_ask))
            => OneSignalAt(g, t, latest[t][1].yes_ask)
        ]_vars

\* T10 was crossed with a cached ask of 88 and slippage 2: the signal has
\* limit price 90 and quantity 1.
C16_Witness ==
    /\ cfg.max_slippage_cents = 2
    /\ \E k \in TotalsSignals :
          /\ signal_log[k].market_ticker = T10
          /\ signal_log[k].yes_ask = 88
          /\ signal_log[k].max_price_cents = 90
          /\ signal_log[k].quantity = 1
          /\ signal_log[k].side = "yes"

\* Brain takes the next event off the bus.
BrainTakes ==
    brain.pc = "get" /\ game_events # <<>> /\ game_events' = Tail(game_events)

\* The event Brain is processing in this step.
EventInHand == IF brain.pc = "get" THEN Head(game_events) ELSE brain.event[1]

\* In this step _process_event passes "Check crunch time" for game g: the
\* event is not final, the game is registered, and the step is the one that
\* takes the event or ends a registration request.
CrunchChecked(g) ==
    /\ BrainTakes \/ (brain.pc \in {"refresh", "ml_refresh"} /\ brain'.pc # brain.pc)
    /\ brain'.pc \in {"get", "rest"}
    /\ EventInHand.game_id = g
    /\ ~EventInHand.is_final
    /\ brain'.game_state[g] = "registered"

\* The lowest-trigger unfired threshold of game g has a cached ask of 60
\* cents or more, on the entries as they are when the check runs.
LowestUnfiredHot(g) ==
    LET entries == IF threshold_map[g] # <<>> THEN threshold_map[g]
                   ELSE threshold_map'[g]
        unfired == {i \in 1..Len(entries) : ~entries[i].already_triggered}
    IN \E i \in unfired :
          /\ \A j \in unfired : entries[i].trigger_score <= entries[j].trigger_score
          /\ latest[entries[i].market_ticker] # <<>>
          /\ latest[entries[i].market_ticker][1].yes_ask >= 60

\* C18: the gate becomes active for a game only in a step in which Brain
\* processes a non-final event of that registered game while the lowest
\* unfired threshold has a cached yes_ask >= 60, and in every such step it
\* is active afterwards; once active it stays active until Brain processes
\* a final event of that game.
C18_CrunchTimeGate ==
    [][\A g \in Games :
         /\ (g \notin gate /\ g \in gate') => (CrunchChecked(g) /\ LowestUnfiredHot(g))
         /\ (CrunchChecked(g) /\ LowestUnfiredHot(g)) => g \in gate'
         /\ (g \in gate /\ g \notin gate') =>
               (BrainTakes /\ Head(game_events).game_id = g
                           /\ Head(game_events).is_final)
      ]_vars

\* The gate is active for g1 on an ask of exactly 60 for T5, and Brain has
\* processed a later event since.
C18_Witness ==
    /\ "g1" \in gate
    /\ latest[T5] # <<>>
    /\ latest[T5][1].yes_ask = 60
    /\ latest[T10] = <<>>
    /\ brain.pc = "get"
    /\ Len(oracle_hist.published) = 3
    /\ game_events = <<>>

-----------------------------------------------------------------------------
(***************************************************************************)
(* The entry builders alone: one call on a listing drawn from the tickers  *)
(* below, which include a ticker of another series with the same line, a   *)
(* ticker whose last part is no integer, and a market without a ticker.    *)
(***************************************************************************)

T5H == <<"KXNCAAMB1HTOTAL", "26FEB19G1", "5">>
NoTicker == <<"">>      \* mkt.get("ticker", "") of a market without the key

BuildMaxLen == 3

BuildTickers == {T5, T10, TX, T5H, NoTicker}
BuildTotals  == {4, 5, 10}

RECURSIVE Listings(_)
Listings(n) ==
    IF n = 0 THEN {<<>>}
    ELSE LET shorter == Listings(n - 1)
         IN shorter \cup {Append(l, [ticker |-> t]) :
                             l \in {x \in shorter : Len(x) = n - 1},
                             t \in BuildTickers}

\* The call _register_game makes for the event's sport.
BuildCall(sport, current_total, kalshi_markets) ==
    /\ build.sport = ""
    /\ build' = [sport |-> sport, current_total |-> current_total,
                 kalshi_markets |-> kalshi_markets,
                 entries |-> IF sport = "ncaa_basketball"
                             THEN build_basketball_entries(current_total,
                                                           kalshi_markets)
                             ELSE build_soccer_entries(current_total,
                                                       kalshi_markets)]
    /\ UNCHANGED <<busVars, bus_hist, breakerVars, riskAll, oracleVars, wsVars,
                   brain, threshold_map, moneyline_map, gate, cfg, sniper,
                   sniper_hist, signal_log, sched, now>>

NextBuild ==
    \E sport \in Sports, current_total \in BuildTotals,
       kalshi_markets \in Listings(BuildMaxLen) :
        BuildCall(sport, current_total, kalshi_markets)

SpecBuild == Init /\ [][NextBuild]_vars

\* The positions of the listing whose ticker ends in an integer.
Parseable(kalshi_markets) ==
    {i \in 1..Len(kalshi_markets) :
        LET ticker == kalshi_markets[i].ticker
        IN ticker[Len(ticker)] \in {"5", "10"}}

\* The line a ticker names.
LineOf(ticker) == IF ticker[Len(ticker)] = "5" THEN 5 ELSE 10

-----------------------------------------------------------------------------
(***************************************************************************)
(* KalshiWSClient's subscription bookkeeping alone: subscribe and          *)
(* unsubscribe calls with any of the lists below, before a connection, on  *)
(* a live one, and after it closed.                                        *)
(***************************************************************************)

MaxSubscribes == 3

SubscribeLists == {{}, {T5}, {T5, T10}}

NextSubscribe ==
    \/ \E tickers \in SubscribeLists :
          /\ ws_hist.subscribes < MaxSubscribes
          /\ WSSubscribe(tickers)
          /\ UNCHANGED wsRest
    \/ \E tickers \in SubscribeLists : WSUnsubscribe(tickers) /\ UNCHANGED wsRest
    \/ WSConnectOk /\ exchange_ws.conn < MaxConns /\ UNCHANGED wsRest
    \/ WSCloseClean /\ UNCHANGED wsRest
    \/ WSCloseError /\ UNCHANGED wsRest
    \/ WSSleepDone /\ UNCHANGED wsRest
    \/ WSImmediateSend /\ UNCHANGED wsRest

SpecSubscribe == Init /\ [][NextSubscribe]_vars

\* C20: subscribe(tickers) drops the tickers already in the subscribed set.
\* A call whose tickers are all subscribed already (a call repeated with the
\* same tickers among them) changes nothing of the client or the exchange
\* and sends, schedules and queues no command; any other call registers the
\* new tickers and schedules or queues one batch, of the new tickers only.
C20_SubscribeIdempotent ==
    [][ws_hist'.subscribes = ws_hist.subscribes + 1 =>
         LET tickers     == ws_hist'.subscribe_calls[Len(ws_hist'.subscribe_calls)]
             new_tickers == tickers \ ws.subscribed_tickers
         IN IF new_tickers = {}
            THEN /\ ws' = ws
                 /\ exchange_ws' = exchange_ws
                 /\ latest' = latest
                 /\ ws_hist'.sent = ws_hist.sent
            ELSE /\ ws'.subscribed_tickers = ws.subscribed_tickers \cup tickers
                 /\ \/ /\ ws'.pending_subscribe = ws.pending_subscribe
                       /\ Len(ws'.tasks) = Len(ws.tasks) + 1
                       /\ SubSeq(ws'.tasks, 1, Len(ws.tasks)) = ws.tasks
                       /\ ws'.tasks[Len(ws'.tasks)].tickers = new_tickers
                    \/ /\ ws'.tasks = ws.tasks
                       /\ ws'.pending_subscribe
                          = Append(ws.pending_subscribe, new_tickers)
                 /\ ws_hist'.sent = ws_hist.sent]_vars

\* subscribe was called twice with the same two tickers on a live socket:
\* one task was scheduled, and it has sent its one command.
C20_Witness ==
    /\ ws_hist.subscribe_calls = <<{T5, T10}, {T5, T10}>>
    /\ ws.subscribed_tickers = {T5, T10}
    /\ ws.live_ws # <<>>
    /\ ws.tasks = <<>> /\ ws.pending_subscribe = <<>>
    /\ Len(ws_hist.sent) = 1
    /\ ws_hist.sent[1].tickers = {T5, T10}

\* The socket of the client's current connection is open.
SocketLive == exchange_ws.open /\ ws.pc = "consume"

\* C21: a subscribe call that adds new tickers schedules their subscribe
\* command on the live socket when there is one; when the socket is not live
\* (never connected, or closed cleanly or by an error and not yet
\* reconnected) it queues them for the next successful connect.
C21_LiveSendsElseQueues ==
    [][ws_hist'.subscribes = ws_hist.subscribes + 1 =>
         LET tickers     == ws_hist'.subscribe_calls[Len(ws_hist'.subscribe_calls)]
             new_tickers == tickers \ ws.subscribed_tickers
         IN new_tickers # {} =>
               IF SocketLive
               THEN /\ ws'.tasks = Append(ws.tasks, [conn |-> exchange_ws.conn,
                                                     tickers |-> new_tickers])
                    /\ ws'.pending_subscribe = ws.pending_subscribe
               ELSE /\ ws'.pending_subscribe
                       = Append(ws.pending_subscribe, new_tickers)
                    /\ ws'.tasks = ws.tasks]_vars

\* What does hold of the tickers registered while the socket is down: a
\* successful connect sends a subscribe command for every subscribed ticker.
ConnectSendsSubscribed ==
    [][exchange_ws'.conn = exchange_ws.conn + 1 =>
         ws.subscribed_tickers \subseteq exchange_ws'.subscribed]_vars

-----------------------------------------------------------------------------
(***************************************************************************)
(* KalshiWSClient.run alone: connects that succeed or fail, connections    *)
(* that end cleanly or with an error, the sleeps between attempts, and a   *)
(* shutdown request.  The only frame is the exchange's acknowledgement.    *)
(***************************************************************************)

MaxReconnects == 3

AckFrame == WsFrame("subscribed", <<>>, 0, <<>>, <<>>)

NextReconnect ==
    \/ WSConnectOk /\ exchange_ws.conn < MaxReconnects /\ UNCHANGED wsRest
    \/ WSConnectFail /\ UNCHANGED wsRest
    \/ WSMessage(AckFrame) /\ ws_hist.frames < MaxWsFrames /\ UNCHANGED wsRest
    \/ WSCloseClean /\ UNCHANGED wsRest
    \/ WSCloseError /\ UNCHANGED wsRest
    \/ WSSleepDone /\ UNCHANGED wsRest
    \/ WSRequestShutdown /\ UNCHANGED wsRest
    \/ WSLoopExit /\ UNCHANGED wsRest

SpecReconnect == Init /\ [][NextReconnect]_vars

\* C22: the reconnect delay is 0.5 s at the start, is doubled by every sleep
\* up to the cap, always lies between 0.5 s and 5 s, and the sleep that
\* follows a connection that had been established lasts 0.5 s.
C22_BackoffResetOnConnect ==
    /\ (ws.backoff = 5)
    /\ [](ws.backoff >= 5 /\ ws.backoff <= 50)
    /\ [][/\ (ws.pc = "sleep" /\ ws'.pc = "loop") =>
                ws'.backoff = (IF 2 * ws.backoff <= 50 THEN 2 * ws.backoff ELSE 50)
          /\ (ws.pc = "consume" /\ ws'.pc = "sleep") => ws'.backoff = 5]_vars

\* What does hold: the sleep after a connection that ended without an error
\* lasts 0.5 s.
CleanExitResets ==
    [][(ws.pc = "consume" /\ ws'.pc = "sleep" /\ ws'.live_ws = <<>>) =>
          ws'.backoff = 5]_vars

-----------------------------------------------------------------------------
(***************************************************************************)
(* The moneyline path with both teams scoring, a book with both sides, and *)
(* a fill that makes Shield halt, all within one tick of the clock.        *)
(***************************************************************************)

MaxSigFrames == 1

\* Second-half scores: level, the home team ahead by ten and by twenty, the
\* away team ahead by ten, and the home team ahead by three, a lead the
\* estimate has no probability for.
SigScores == {<<0, 0>>, <<10, 0>>, <<20, 0>>, <<10, 7>>, <<10, 20>>}

SigRaws == RawGames({"g1"}, SigScores, {2}, {"live"})

\* Snapshots of the moneyline market: both sides priced with edge, and both
\* priced without.
SigFrames ==
    { WsFrame("orderbook_snapshot", <<ML1>>, 1, << <<70, 5>> >>, << <<25, 5>> >>),
      WsFrame("orderbook_snapshot", <<ML1>>, 1, << <<87, 5>> >>, << <<90, 5>> >>) }

\* A fill above the exposure ceiling.
SigFill ==
    [market_ticker |-> T5, status |-> "filled", filled_quantity |-> 2,
     avg_price_cents |-> 90]

\* On this path every get_market request of the REST fallback raises.
SigRestMarkets == {}

sigRiskRest == <<bus_hist, breakerVars, oracleVars, wsVars, pipeVars, now>>

NextSig ==
    \/ FeedStep(SigRaws)
    \/ BrainStep(SigRestMarkets)
    \/ WSConnectOk /\ exchange_ws.conn < MaxConns /\ UNCHANGED pipeWsRest
    \/ \E frame \in SigFrames :
          WSMessage(frame) /\ ws_hist.frames < MaxSigFrames /\ UNCHANGED pipeWsRest
    \/ WSImmediateSend /\ UNCHANGED pipeWsRest
    \/ InjectFill(SigFill) /\ risk_hist.injected < 1 /\ UNCHANGED sigRiskRest
    \/ RiskShieldRun /\ UNCHANGED sigRiskRest

SpecSig == Init /\ [][NextSig]_vars

\* The scores _process_event took as the previous ones of the event in hand.
PrevOfStep ==
    IF brain.pc # "get" THEN brain.prev
    ELSE IF brain.prev_scores[EventInHand.game_id] = <<>> THEN <<0, 0>>
    ELSE brain.prev_scores[EventInHand.game_id][1]

\* When the entry of a moneyline signal had signalled before the step (0 for
\* an entry that never has).
LastSignaledBefore(r) ==
    LET entries == moneyline_map[r.game_id]
        same    == {i \in 1..Len(entries) :
                       /\ entries[i].market_ticker = r.market_ticker
                       /\ entries[i].team_side = r.team_side}
    IN IF same = {} THEN 0 ELSE entries[CHOOSE i \in same : TRUE].last_signaled

\* C23: the moneyline signals Brain publishes while it processes one event
\* are at most one per entry, and each is published only if the system is not
\* halted, the entry's team has more points than in the previous event and
\* more than the other team, the win-probability estimate is not zero and
\* 100 x win_prob x (1 - fee) - ask reaches the minimum edge at the cached
\* ask, and 45 s have passed since the entry last signalled.
C23_MoneylineSignalGuards ==
    [][\A k \in (Len(signal_log) + 1)..Len(signal_log') :
          signal_log'[k].kind = "moneyline" =>
             LET r      == signal_log'[k]
                 event  == EventInHand
                 prev   == PrevOfStep
                 home   == r.team_side = "home"
                 mine   == IF home THEN event.home_score ELSE event.away_score
                 theirs == IF home THEN event.away_score ELSE event.home_score
                 before == IF home THEN prev[1] ELSE prev[2]
                 book   == latest'[r.market_ticker]
                 ask    == IF r.side = "yes" THEN book[1].yes_ask ELSE book[1].no_ask
                 wp     == estimate_win_prob(mine - theirs, event.period, event.sport)
             IN /\ r.game_id = event.game_id
                /\ ~risk.is_halted
                /\ mine > before
                /\ mine > theirs
                /\ wp # 0
                /\ book # <<>>
                /\ wp * net_payout_x100 - 10000 * ask >= 10000 * cfg.min_edge_cents
                /\ now - LastSignaledBefore(r) >= 45
                /\ \A j \in (Len(signal_log) + 1)..Len(signal_log') :
                      (/\ j # k
                       /\ signal_log'[j].kind = "moneyline"
                       /\ signal_log'[j].market_ticker = r.market_ticker)
                      => signal_log'[j].team_side # r.team_side]_vars

\* The away team went ahead 20-10 from 10-0 and its entry, which buys the
\* "no" side, signalled; the home entry had signalled at 10-0.
C23_Witness ==
    /\ Len(signal_log) >= 2
    /\ \E j, k \in 1..Len(signal_log) :
          /\ j < k
          /\ signal_log[j].kind = "moneyline" /\ signal_log[j].team_side = "home"
          /\ signal_log[k].kind = "moneyline" /\ signal_log[k].team_side = "away"
          /\ signal_log[k].side = "no"
    /\ brain.prev_scores["g1"] = << <<10, 20>> >>

-----------------------------------------------------------------------------
(***************************************************************************)
(* Shutdown: main.run() is woken by the shutdown event, asks the WebSocket *)
(* client to stop, cancels the five agent tasks, awaits them, and shuts    *)
(* the feeds and the REST client down.  A cancelled task meets             *)
(* CancelledError at the await it is suspended in, and what happens next   *)
(* is decided by the except clauses around that await.                     *)
(***************************************************************************)

Exceptions == {"CancelledError", "Exception"}

\* A faulty Brain loop that logs a CancelledError as it does any other error.
brain_run_on_swallows(exc) == "get"

\* BrainAgent.run: CancelledError breaks the loop, any other exception is
\* logged and the loop goes back to game_events.get()
brain_run_on(exc) == IF exc = "CancelledError" THEN "done" ELSE "get"

\* SniperAgent.run
sniper_run_on(exc) == IF exc = "CancelledError" THEN "done" ELSE "get"

\* ShieldAgent.run
shield_run_on(exc) == IF exc = "CancelledError" THEN "done" ELSE "get"

\* OracleAgent._run_feed: CancelledError passes, any other exception is
\* logged; either way the coroutine returns.
run_feed_on(exc) == "done"

\* KalshiWSClient.run under WatcherAgent.run: "except Exception" sends the
\* loop to its sleep; CancelledError is no Exception and leaves run().
ws_run_on(exc) == IF exc = "CancelledError" THEN "done" ELSE "sleep"

Running(t) == sched.task[t] = "running"

TaskAfter(pc) == IF pc = "done" THEN "done" ELSE "running"

shutRest == <<busVars, bus_hist, breakerVars, riskAll, oracleVars, exchange_ws,
              latest, ws_hist, brain, threshold_map, moneyline_map, gate, cfg,
              sniper, sniper_hist, signal_log, build, now>>

\* run(): shutdown_event.wait() returns; request_shutdown(), then cancel()
\* on every task, then the await of gather.
MainShutdown ==
    /\ sched.main = "wait"
    /\ ws' = [ws EXCEPT !.shutdown = TRUE]
    /\ sched' = [sched EXCEPT
                   !.main = "gather",
                   !.task = [t \in DOMAIN @ |->
                               IF t \in AgentTasks /\ @[t] = "running"
                               THEN "cancelling" ELSE @[t]]]
    /\ UNCHANGED shutRest

\* Brain meets CancelledError in game_events.get() or in an await of
\* _process_event.
BrainCancelled ==
    /\ sched.task["brain"] = "cancelling"
    /\ LET pc == brain_run_on("CancelledError") IN
       /\ brain' = [brain EXCEPT !.pc = pc]
       /\ sched' = [sched EXCEPT !.task["brain"] = TaskAfter(pc),
                                 !.at["brain"] = brain.pc]
    /\ UNCHANGED <<busVars, bus_hist, breakerVars, riskAll, oracleVars, wsVars,
                   threshold_map, moneyline_map, gate, cfg, sniper, sniper_hist,
                   signal_log, build, now>>

\* Sniper meets CancelledError in trade_signals.get() or in place_order.
SniperCancelled ==
    /\ sched.task["sniper"] = "cancelling"
    /\ LET pc == sniper_run_on("CancelledError") IN
       /\ sniper' = [sniper EXCEPT !.pc = pc]
       /\ sched' = [sched EXCEPT !.task["sniper"] = TaskAfter(pc),
                                 !.at["sniper"] = sniper.pc]
    /\ UNCHANGED <<busVars, bus_hist, breakerVars, riskAll, oracleVars, wsVars,
                   brain, threshold_map, moneyline_map, gate, cfg, sniper_hist,
                   signal_log, build, now>>

\* Shield meets CancelledError in fill_reports.get(), its only await.
ShieldCancelled ==
    /\ sched.task["shield"] = "cancelling"
    /\ sched' = [sched EXCEPT
                   !.task["shield"] = TaskAfter(shield_run_on("CancelledError")),
                   !.at["shield"] = "get"]
    /\ UNCHANGED <<ws, shutRest>>

\* The Watcher meets CancelledError in the connect, in the async-for or in
\* the sleep of KalshiWSClient.run; leaving the async-with closes the socket.
WatcherCancelled ==
    /\ sched.task["watcher"] = "cancelling"
    /\ LET pc == ws_run_on("CancelledError") IN
       /\ ws' = [ws EXCEPT !.pc = pc]
       /\ sched' = [sched EXCEPT !.task["watcher"] = TaskAfter(pc),
                                 !.at["watcher"] = ws.pc]
    /\ exchange_ws' = IF ws.pc = "consume"
                      THEN [exchange_ws EXCEPT !.open = FALSE] ELSE exchange_ws
    /\ UNCHANGED <<busVars, bus_hist, breakerVars, riskAll, oracleVars, latest,
                   ws_hist, brain, threshold_map, moneyline_map, gate, cfg,
                   sniper, sniper_hist, signal_log, build, now>>

\* OracleAgent.run meets CancelledError in its gather, which cancels the
\* feed tasks that still run and waits for them.
OracleCancelled ==
    /\ sched.task["oracle"] = "cancelling"
    /\ sched.at["oracle"] = ""
    /\ sched' = [sched EXCEPT
                   !.at["oracle"] = "gather",
                   !.task = [t \in DOMAIN @ |->
                               IF t \in FeedTasks /\ @[t] = "running"
                               THEN "cancelling" ELSE @[t]]]
    /\ UNCHANGED <<ws, shutRest>>

\* A feed task meets CancelledError inside feed.stream().
FeedCancelled(t) ==
    /\ sched.task[t] = "cancelling"
    /\ sched' = [sched EXCEPT !.task[t] = TaskAfter(run_feed_on("CancelledError")),
                              !.at[t] = "stream"]
    /\ UNCHANGED <<ws, shutRest>>

\* The feed tasks have ended: the cancelled gather raises in OracleAgent.run.
OracleDone ==
    /\ sched.task["oracle"] = "cancelling"
    /\ sched.at["oracle"] = "gather"
    /\ \A t \in FeedTasks : sched.task[t] = "done"
    /\ sched' = [sched EXCEPT !.task["oracle"] = "done"]
    /\ UNCHANGED <<ws, shutRest>>

\* run(): gather(*tasks, return_exceptions=True) returns when every agent
\* task has ended; then oracle.shutdown(), then rest_client.shutdown().
MainStep ==
    /\ \/ /\ sched.main = "gather"
          /\ \A t \in AgentTasks : sched.task[t] = "done"
          /\ sched' = [sched EXCEPT !.main = "oracle_shutdown"]
       \/ /\ sched.main = "oracle_shutdown"
          /\ sched' = [sched EXCEPT !.main = "rest_shutdown"]
       \/ /\ sched.main = "rest_shutdown"
          /\ sched' = [sched EXCEPT !.main = "stopped"]
    /\ UNCHANGED <<ws, shutRest>>

\* How many polls the feed makes before and during the shutdown.
MaxShutPolls == 2

ShutScores == {<<0, 0>>, <<5, 0>>}
ShutRaws   == RawGames({"g1"}, ShutScores, {2}, {"live"})
ShutBooks  == { [yes_ask |-> 40, yes_bid |-> 38, no_ask |-> 62, no_bid |-> 60] }

NextShutdown ==
    \/ Running("oracle-espn") /\ FeedStep(ShutRaws)
          /\ oracle_hist.polls < MaxShutPolls
    \/ Running("brain") /\ BrainStep(ShutBooks)
    \/ Running("sniper") /\ SniperStep
    \/ Running("shield") /\ ShieldStep
    \/ Running("watcher") /\ WSConnectOk /\ exchange_ws.conn < MaxConns
          /\ UNCHANGED pipeWsRest
    \/ Running("watcher") /\ WSCloseError /\ UNCHANGED pipeWsRest
    \/ MainShutdown
    \/ BrainCancelled
    \/ SniperCancelled
    \/ ShieldCancelled
    \/ WatcherCancelled
    \/ OracleCancelled
    \/ \E t \in FeedTasks : FeedCancelled(t)
    \/ OracleDone
    \/ MainStep

\* The event loop runs every task that is ready: a cancelled task gets its
\* CancelledError, and main.run() resumes when what it awaits is done.
SpecShutdown ==
    /\ Init
    /\ [][NextShutdown]_vars
    /\ WF_vars(BrainCancelled)
    /\ WF_vars(SniperCancelled)
    /\ WF_vars(ShieldCancelled)
    /\ WF_vars(WatcherCancelled)
    /\ WF_vars(OracleCancelled)
    /\ WF_vars(\E t \in FeedTasks : FeedCancelled(t))
    /\ WF_vars(OracleDone)
    /\ WF_vars(MainStep)

\* C24: once main.run() has cancelled the agent tasks, every one of them
\* ends, at whatever await it was suspended in, and the shutdown sequence
\* runs to its end; when it has, no task is left running.
C24_ShutdownCompletes ==
    /\ (sched.main = "gather") ~> (sched.main = "stopped")
    /\ [](sched.main = "stopped" =>
             \A t \in AgentTasks \cup FeedTasks : sched.task[t] = "done")

\* The shutdown ran to its end after Brain was cancelled in the REST
\* fallback, Sniper and Shield in their queues, the Watcher in its async-for
\* and the feed tasks in their streams.
C24_Witness ==
    /\ sched.main = "stopped"
    /\ sched.at["brain"] = "rest"
    /\ sched.at["sniper"] = "get"
    /\ sched.at["shield"] = "get"
    /\ sched.at["watcher"] = "consume"
    /\ \A t \in FeedTasks : sched.at[t] = "stream"
    /\ \A t \in AgentTasks \cup FeedTasks : sched.task[t] = "done"

\* C25: no step of the pipeline takes is_halted from true to false, and the
\* reason recorded at the halt is never replaced or cleared.
C25_HaltIsOneWay ==
    [][risk.is_halted =>
          /\ risk'.is_halted
          /\ risk'.last_circuit_break_reason = risk.last_circuit_break_reason]_vars

\* Shield has processed another fill after the halt: the exposure is above
\* the value the reason recorded.
C25_Witness ==
    /\ risk.is_halted
    /\ risk.last_circuit_break_reason # <<>>
    /\ risk.last_circuit_break_reason[1].value < risk.open_exposure_cents

\* Brain runs in this step: it takes an event, or resumes from a request.
BrainActs == BrainTakes \/ (brain.pc # "get" /\ brain' # brain)

\* The trigger a totals signal's ticker names.
TriggerOfSignal(r) == IntOf[r.market_ticker[Len(r.market_ticker)]]

\* C26: while Brain processes a non-final event with total T, entries of the
\* event's game with trigger > T and the entries of other games are left
\* alone, a triggered entry stays triggered, an entry is taken up only when
\* T has reached its trigger and every entry with a lower trigger is
\* triggered, the entries behind the one waiting for the REST fallback are
\* untouched, and the signals of a step come in ascending trigger order;
\* when Brain has finished the event and the game is registered, every entry
\* with trigger <= T is already_triggered.
C26_ScanMarksReached ==
    [][(BrainActs /\ ~EventInHand.is_final) =>
         LET g       == EventInHand.game_id
             T       == EventInHand.total_score
             before  == threshold_map[g]
             after   == threshold_map'[g]
             new     == (Len(signal_log) + 1)..Len(signal_log')
         IN /\ \A h \in Games \ {g} : threshold_map'[h] = threshold_map[h]
            /\ before # <<>> => Len(after) = Len(before)
            /\ \A i \in 1..Len(before) :
                  /\ before[i].trigger_score > T => after[i] = before[i]
                  /\ before[i].already_triggered => after[i] = before[i]
                  /\ Flips(g, i) =>
                        /\ before[i].trigger_score <= T
                        /\ after[i] = [before[i] EXCEPT !.already_triggered = TRUE]
                        /\ \A j \in 1..Len(before) :
                              before[j].trigger_score < before[i].trigger_score
                                 => after[j].already_triggered
                  /\ (brain'.pc = "rest" /\ i > brain'.idx) => after[i] = before[i]
            /\ \A k, l \in new :
                  (/\ k < l
                   /\ signal_log'[k].kind = "totals"
                   /\ signal_log'[l].kind = "totals")
                  => TriggerOfSignal(signal_log'[k]) < TriggerOfSignal(signal_log'[l])
            /\ (brain'.pc = "get" /\ brain'.game_state[g] = "registered") =>
                  \A i \in 1..Len(after) :
                      after[i].trigger_score <= T => after[i].already_triggered
      ]_vars

\* The 10-0 event reached both thresholds of g1 at once: Brain has finished
\* it, both entries are triggered, and the signal for the 5 line was
\* published before the one for the 10 line.
C26_Witness ==
    /\ oracle_hist.published = << <<"g1", 0, 0>>, <<"g1", 10, 0>> >>
    /\ game_events = <<>>
    /\ brain.pc = "get"
    /\ brain.prev_scores["g1"] = << <<10, 0>> >>
    /\ Len(threshold_map["g1"]) = 2
    /\ \A i \in 1..2 : threshold_map["g1"][i].already_triggered
    /\ \E k, l \in TotalsSignals :
          /\ k < l
          /\ signal_log[k].market_ticker = T5
          /\ signal_log[l].market_ticker = T10

\* C27: when Brain takes a final event off the bus, the step leaves the
\* game without threshold entries and without moneyline entries, out of the
\* crunch-time gate and without a previous score; it publishes no trade
\* signal, starts no registration (Brain is back at the bus, the registration
\* states, failure times and market caches are as before), and touches no
\* other game.
C27_FinalEventCleansUp ==
    [][(BrainTakes /\ Head(game_events).is_final) =>
         LET g == Head(game_events).game_id
         IN /\ threshold_map'[g] = <<>>
            /\ moneyline_map'[g] = <<>>
            /\ g \notin gate'
            /\ brain'.prev_scores[g] = <<>>
            /\ signal_log' = signal_log
            /\ trade_signals' = trade_signals
            /\ brain'.pc = "get"
            /\ brain'.game_state = brain.game_state
            /\ brain'.ml_game_state = brain.ml_game_state
            /\ brain'.game_state_failed_at = brain.game_state_failed_at
            /\ brain'.ml_game_state_failed_at = brain.ml_game_state_failed_at
            /\ brain'.todays_markets = brain.todays_markets
            /\ brain'.ml_todays_markets = brain.ml_todays_markets
            /\ \A h \in Games \ {g} :
                  /\ threshold_map'[h] = threshold_map[h]
                  /\ moneyline_map'[h] = moneyline_map[h]
                  /\ (h \in gate') = (h \in gate)
                  /\ brain'.prev_scores[h] = brain.prev_scores[h]
      ]_vars

\* The final event of g1 has been processed after the 5-0 event had put the
\* game in the gate (the 5 line was signalled at the cached ask of 60, the
\* crunch-time threshold): the game is registered for totals and moneyline
\* but has no entries, no gate activation and no previous score.
C27_Witness ==
    /\ brain.pc = "get"
    /\ game_events = <<>>
    /\ Len(oracle_hist.published) = 3
    /\ brain.game_state["g1"] = "registered"
    /\ brain.ml_game_state["g1"] = "registered"
    /\ threshold_map["g1"] = <<>>
    /\ moneyline_map["g1"] = <<>>
    /\ gate = {}
    /\ brain.prev_scores["g1"] = <<>>
    /\ \E k \in TotalsSignals :
          /\ signal_log[k].market_ticker = T5
          /\ signal_log[k].yes_ask = CRUNCH_TIME_ASK_THRESHOLD

-----------------------------------------------------------------------------
(***************************************************************************)
(* The way of a final status: feed -> Oracle -> Brain, with Brain always   *)
(* taking the next event off the bus and every request of Brain answered.  *)
(* The provider's reports are the environment's: nothing obliges it to     *)
(* report again.                                                           *)
(***************************************************************************)

NextFinal ==
    \/ FeedStep(PipeRaws)
    \/ BrainStep(RestMarkets)

SpecFinal ==
    Init /\ [][NextFinal]_vars /\ WF_vars(BrainStep(RestMarkets))

\* Brain is back at the bus and holds no previous score of game g, which
\* Oracle has published: once Brain has processed an event of g, that is so
\* only when the last one it processed was final.
FinalReachedBrain(g) ==
    /\ seen[g] # <<>>
    /\ brain.pc = "get"
    /\ brain.prev_scores[g] = <<>>

\* C28: when the provider's latest report of a game is final, Brain
\* eventually has a final event of that game as the last one it processed.
C28_FinalReachesBrain ==
    \A g \in Games :
        (oracle_hist.last_status[g] = "final") ~> FinalReachedBrain(g)

\* What the code does give: a final event that the feed client's and
\* Oracle's dedup let through to the bus is processed by Brain.
FinalOnBusReachesBrain ==
    \A g \in Games :
        (\E i \in 1..Len(game_events) :
            game_events[i].game_id = g /\ game_events[i].is_final)
        ~> FinalReachedBrain(g)

-----------------------------------------------------------------------------

\* _process_event reaches "Moneyline registration" in this step: Brain takes
\* a non-final event and needs no totals request, or the totals request is
\* answered.
MLStageReached ==
    \/ BrainTakes /\ ~Head(game_events).is_final /\ brain'.pc # "refresh"
    \/ brain.pc = "refresh" /\ brain' # brain

\* C29: an event of a game whose totals registration failed at time t starts
\* no attempt before t + 60 s (state, failure time and market cache stay, no
\* request is made), and at t + 60 s or later it drops the sport's market
\* cache and starts one attempt, whose request is the only totals request of
\* the event.  The moneyline registration does the same on its own state,
\* failure time and cache, at the time the event reaches it.
C29_RetryAfterSixtySeconds ==
    [][/\ (BrainTakes /\ ~Head(game_events).is_final
             /\ brain.game_state[Head(game_events).game_id] = "failed") =>
          LET g  == Head(game_events).game_id
              sp == Head(game_events).sport
          IN IF now - brain.game_state_failed_at[g] >= REGISTRATION_RETRY_S
             THEN /\ brain'.pc = "refresh"
                  /\ brain'.game_state[g] = "pending"
                  /\ brain'.todays_markets[sp] = <<>>
             ELSE /\ brain'.pc # "refresh"
                  /\ brain'.game_state[g] = "failed"
                  /\ brain'.game_state_failed_at[g] = brain.game_state_failed_at[g]
                  /\ brain'.todays_markets = brain.todays_markets
       /\ (MLStageReached /\ brain.ml_game_state[EventInHand.game_id] = "failed") =>
          LET g  == EventInHand.game_id
              sp == EventInHand.sport
          IN IF now - brain.ml_game_state_failed_at[g] >= REGISTRATION_RETRY_S
             THEN /\ brain'.pc = "ml_refresh"
                  /\ brain'.ml_game_state[g] = "pending"
                  /\ brain'.ml_todays_markets[sp] = <<>>
             ELSE /\ brain'.pc # "ml_refresh"
                  /\ brain'.ml_game_state[g] = "failed"
                  /\ brain'.ml_game_state_failed_at[g] = brain.ml_game_state_failed_at[g]
                  /\ brain'.ml_todays_markets = brain.ml_todays_markets
       /\ (brain'.pc = "refresh" /\ brain' # brain) => BrainTakes
       /\ (brain'.pc = "ml_refresh" /\ brain' # brain) => MLStageReached
      ]_vars

\* The totals registration of g1 failed at the start of the clock; the 5-0
\* event came before the minute was over and the 10-0 event after it: Brain
\* has dropped the market cache and waits for the listing again.
C29_Witness ==
    /\ oracle_hist.published = << <<"g1", 0, 0>>, <<"g1", 5, 0>>, <<"g1", 10, 0>> >>
    /\ game_events = <<>>
    /\ brain.pc = "refresh"
    /\ brain.game_state["g1"] = "pending"
    /\ brain.game_state_failed_at["g1"] = ClockStart
    /\ brain.todays_markets["ncaa_basketball"] = <<>>
    /\ now >= ClockStart + REGISTRATION_RETRY_S
    /\ brain.ml_game_state["g1"] = "failed"

\* The moneyline registration of g1 is retried: Brain waits for the
\* moneyline listing again, a minute or more after the failure.
MoneylineRetried ==
    /\ brain.pc = "ml_refresh"
    /\ brain.ml_game_state["g1"] = "pending"
    /\ brain.ml_game_state_failed_at["g1"] = ClockStart
    /\ now >= ClockStart + REGISTRATION_RETRY_S

-----------------------------------------------------------------------------

\* C30: when get_market answers the REST fallback for a ticker whose cache
\* entry the WebSocket client has filled during the request, the step
\* leaves that entry as it is.
C30_FallbackKeepsWsUpdate ==
    [][(brain.pc = "rest" /\ brain' # brain) =>
         LET ticker == threshold_map[brain.event[1].game_id][brain.idx].market_ticker
         IN latest[ticker] # <<>> => latest'[ticker] = latest[ticker]
      ]_vars

-----------------------------------------------------------------------------

\* C31: while Risk State is halted, no step sends an order to the exchange
\* (Sniper's list of place_order calls does not grow).
C31_NoOrderAfterHalt ==
    [][risk.is_halted => sniper_hist'.orders = sniper_hist.orders]_vars

\* What the code does give: an event that Brain takes while Risk State is
\* halted publishes no trade signal before its first request.
NoSignalAfterHalt ==
    [][(risk.is_halted /\ brain.pc = "get") =>
          Len(trade_signals') <= Len(trade_signals)]_vars

-----------------------------------------------------------------------------
(***************************************************************************)
(* A lagging Sniper: Brain publishes signals faster than Sniper's orders   *)
(* are answered, up to one signal more than the channel holds.             *)
(***************************************************************************)

\* How many signals Brain publishes beyond the channel's capacity.
StallExtra == 1

MaxStallSignals == TRADE_SIGNALS_MAXSIZE + StallExtra

NextStall ==
    \/ InjectSignalUpTo(1, MaxStallSignals)
    \/ SniperGet
    \/ /\ sniper.pc = "place_order"
       /\ \E resp \in {<<o>> : o \in OrderResponses(sniper.signal[1])} \cup {<<>>} :
             SniperOrderResponse(resp)

SpecStall == Init /\ [][NextStall]_vars

\* C32: every signal Brain publishes is put on trade_signals, behind the
\* signals already pending, however many are pending.
C32_NoSignalDropped ==
    [][Len(signal_log') > Len(signal_log) =>
          /\ Len(trade_signals') = Len(trade_signals) + 1
          /\ trade_signals'[Len(trade_signals')].signal_id = Len(signal_log')
      ]_vars

\* What the code does give: a signal published while fewer signals than the
\* channel holds are pending is put on the channel.
SignalKeptBelowCapacity ==
    [][(Len(signal_log') > Len(signal_log)
          /\ Len(trade_signals) < TRADE_SIGNALS_MAXSIZE) =>
          /\ Len(trade_signals') = Len(trade_signals) + 1
          /\ trade_signals'[Len(trade_signals')].signal_id = Len(signal_log')
      ]_vars

-----------------------------------------------------------------------------
(***************************************************************************)
(* Subscriptions across reconnects: subscribe and unsubscribe calls while  *)
(* the client connects, loses the connection and connects again.           *)
(***************************************************************************)

MaxResubConns == 2
MaxResubCalls == 2

NextResub ==
    \/ \E tickers \in SubscribeLists :
          /\ ws_hist.subscribes < MaxResubCalls
          /\ WSSubscribe(tickers)
          /\ UNCHANGED wsRest
    \/ \E tickers \in SubscribeLists : WSUnsubscribe(tickers) /\ UNCHANGED wsRest
    \/ WSConnectOk /\ exchange_ws.conn < MaxResubConns /\ UNCHANGED wsRest
    \/ WSConnectFail /\ exchange_ws.conn < MaxResubConns /\ UNCHANGED wsRest
    \/ WSCloseClean /\ UNCHANGED wsRest
    \/ WSCloseError /\ UNCHANGED wsRest
    \/ WSSleepDone /\ UNCHANGED wsRest
    \/ WSImmediateSend /\ UNCHANGED wsRest

SpecResub == Init /\ [][NextResub]_vars

\* C33: a successful connect or reconnect sends, as the first command on the
\* new socket, a subscribe command for the whole subscribed set (none when
\* the set is empty), so that every subscribed ticker is subscribed on the
\* new connection, and only then does the client consume messages.
C33_ResubscribeOnConnect ==
    [][exchange_ws'.conn = exchange_ws.conn + 1 =>
         LET first == Len(ws_hist.sent) + 1
         IN /\ ws'.pc = "consume"
            /\ ws.pc = "loop"
            /\ ws_hist'.frames = ws_hist.frames
            /\ ws.subscribed_tickers \subseteq exchange_ws'.subscribed
            /\ ws.subscribed_tickers # {} =>
                  /\ Len(ws_hist'.sent) >= first
                  /\ ws_hist'.sent[first] = [conn |-> exchange_ws'.conn,
                                             tickers |-> ws.subscribed_tickers]
            /\ \A k \in first..Len(ws_hist'.sent) :
                  ws_hist'.sent[k].conn = exchange_ws'.conn
      ]_vars

\* A reconnect after an unsubscribe: T5 and T10 were subscribed on the first
\* connection, T5 was unsubscribed, and the second connection was opened
\* with one command, for T10 alone.
C33_Witness ==
    /\ exchange_ws.conn = 2
    /\ exchange_ws.open
    /\ ws.pc = "consume"
    /\ ws.subscribed_tickers = {T10}
    /\ exchange_ws.subscribed = {T10}
    /\ Len(ws_hist.sent) = 2
    /\ ws_hist.sent[1] = [conn |-> 1, tickers |-> {T5, T10}]
    /\ ws_hist.sent[2] = [conn |-> 2, tickers |-> {T10}]

-----------------------------------------------------------------------------
(***************************************************************************)
(* The cadence of the feed client: the totals path with a live cache, so   *)
(* that Brain activates games in the crunch-time gate, and polls that take *)
(* one of the durations below.                                             *)
(***************************************************************************)

\* How long a poll may take, in ms.
FeedElapsed == {0, 250, 1000}

\* The slow cadence CrunchTimeGate's description gives, in ms (30 s).
MONITORING_INTERVAL_MS == 30000

NextCadence ==
    \/ \E raw \in PipeRaws : \E elapsed \in FeedElapsed :
          FeedPollIn("espn", raw, elapsed) /\ UNCHANGED pipeFeedRest
    \/ BrainStep(MLRestMarkets)
    \/ WSConnectOk /\ exchange_ws.conn < MaxConns /\ UNCHANGED pipeWsRest
    \/ \E frame \in TotalsFrames :
          WSMessage(frame) /\ ws_hist.frames < MaxTotalsFrames /\ UNCHANGED pipeWsRest
    \/ WSImmediateSend /\ UNCHANGED pipeWsRest

SpecCadence == Init /\ [][NextCadence]_vars

\* The feed client ends an iteration of stream() in this step.
FeedIterates == oracle_hist'.polls = oracle_hist.polls + 1

\* C34: the sleep a feed client takes after a poll is sized from the gate:
\* the fast interval less the poll's duration while a game is active in the
\* gate, the slow interval less the poll's duration while none is.
C34_SleepSizedFromGate ==
    [][FeedIterates =>
         LET slept == feed_loop'["espn"].slept[1]
         IN IF gate # {}
            THEN slept.sleep = Max(0, POLL_INTERVAL_MS - slept.elapsed)
            ELSE slept.sleep = Max(0, MONITORING_INTERVAL_MS - slept.elapsed)
      ]_vars

\* What the code does give: the feed client sleeps the fast interval less
\* the poll's duration after every poll, whatever the gate holds.
SleepIgnoresGate ==
    [][FeedIterates =>
         LET slept == feed_loop'["espn"].slept[1]
         IN slept.sleep = Max(0, POLL_INTERVAL_MS - slept.elapsed)
      ]_vars

-----------------------------------------------------------------------------
(***************************************************************************)
(* The feed clients' dedup: polls of two feed clients over two games, each *)
(* raw game kept in poll_log as it is handed to the client.                *)
(***************************************************************************)

EmitRaws == RawGames(Games, OracleScores, {2}, {"live", "final", "scheduled"})

NextEmit ==
    \E f \in Feeds : \E raw \in EmitRaws :
        /\ FeedPoll(f, raw)
        /\ poll_log' = Append(poll_log, [feed |-> f, raw |-> raw])
        /\ UNCHANGED <<market_updates, trade_signals, fill_reports, bus_hist,
                       breakerVars, riskAll, wsVars, pipeVars, now>>

SpecEmit == Init /\ [][NextEmit]_vars

\* The emissions of feed client f for game g, oldest first.
EmissionsOf(f, g) ==
    SelectSeq(oracle_hist.emitted, LAMBDA e : e[1] = f /\ e[2] = g)

-----------------------------------------------------------------------------
(***************************************************************************)
(* A feed client whose fetches fail: polls of ESPN that find a game or     *)
(* raise, up to one failure in a row more than the hundredth.              *)
(***************************************************************************)

MaxFeedErrors == 101

FeedErrorRaws == RawGames({"g1"}, OracleScores, {2}, {"live"})

NextFeedErrors ==
    \/ \E raw \in FeedErrorRaws : \E elapsed \in FeedElapsed :
          FeedPollIn("espn", raw, elapsed) /\ UNCHANGED pipeFeedRest
    \/ \E elapsed \in FeedElapsed :
          /\ feed_loop["espn"].consecutive_errors < MaxFeedErrors
          /\ FeedPollError("espn", elapsed)
          /\ UNCHANGED pipeFeedRest

SpecFeedErrors == Init /\ [][NextFeedErrors]_vars

\* C36: a poll whose fetch raises leaves the feed client's task running,
\* adds one to the count of consecutive failures, logs one warning when the
\* count becomes 1 or a multiple of 100 and none otherwise, and ends in the
\* client's sleep; a poll whose fetch succeeds sets the count to 0 and logs
\* no warning.
C36_FetchErrorAbsorbed ==
    [][feed_loop' # feed_loop =>
         LET before == feed_loop["espn"]
             after  == feed_loop'["espn"]
             n      == before.consecutive_errors + 1
         IN /\ sched' = sched
            /\ after.slept # <<>>
            /\ after.slept[1].sleep = Max(0, POLL_INTERVAL_MS - after.slept[1].elapsed)
            /\ IF oracle_hist'.polls = oracle_hist.polls
               THEN /\ after.consecutive_errors = n
                    /\ after.warnings =
                          IF n = 1 \/ n \in {100 * k : k \in 1..MaxFeedErrors}
                          THEN before.warnings + 1 ELSE before.warnings
                    /\ UNCHANGED <<feed_last, seen, game_events>>
               ELSE /\ after.consecutive_errors = 0
                    /\ after.warnings = before.warnings
      ]_vars

\* A failure, a successful poll, and a hundred failures in a row: three
\* warnings, for the first failure, for the first after the success and for
\* the hundredth.
C36_Witness ==
    /\ feed_loop["espn"].consecutive_errors = 100
    /\ feed_loop["espn"].warnings = 3
    /\ oracle_hist.polls = 1
    /\ sched.task["oracle-espn"] = "running"

-----------------------------------------------------------------------------
(***************************************************************************)
(* A feed whose stream raises: the two feed tasks poll while they run, the *)
(* stream of either may raise, and OracleAgent.run returns when both tasks *)
(* have ended.                                                             *)
(***************************************************************************)

TaskOfFeed(f) == IF f = "espn" THEN "oracle-espn" ELSE "oracle-sportsdata_io"

feedDiesRest == <<busVars, bus_hist, breakerVars, riskAll, oracleVars, wsVars,
                  brain, threshold_map, moneyline_map, gate, cfg, sniper,
                  sniper_hist, signal_log, build, now>>

\* A faulty failure that takes the other feed tasks down with it.
FeedStreamRaises_all(t) ==
    /\ Running(t)
    /\ sched' = [sched EXCEPT
                   !.task = [u \in DOMAIN @ |->
                               IF u \in FeedTasks THEN "done" ELSE @[u]],
                   !.at[t] = "stream"]
    /\ UNCHANGED feedDiesRest

\* feed.stream() raises in task t: _run_feed logs the exception and returns.
FeedStreamRaises(t) ==
    /\ Running(t)
    /\ sched' = [sched EXCEPT !.task[t] = TaskAfter(run_feed_on("Exception")),
                              !.at[t] = "stream"]
    /\ UNCHANGED feedDiesRest

\* OracleAgent.run: gather(*self._tasks, return_exceptions=True) returns when
\* every feed task has ended, and run() returns.
OracleReturns ==
    /\ Running("oracle")
    /\ \A t \in FeedTasks : sched.task[t] = "done"
    /\ sched' = [sched EXCEPT !.task["oracle"] = "done", !.at["oracle"] = "gather"]
    /\ UNCHANGED feedDiesRest

FeedDiesRaws == RawGames({"g1"}, OracleScores, {2}, {"live"})

NextFeedDies ==
    \/ \E f \in Feeds : \E raw \in FeedDiesRaws :
          /\ Running(TaskOfFeed(f))
          /\ FeedPoll(f, raw)
          /\ UNCHANGED pipeFeedRest
    \/ \E t \in FeedTasks : FeedStreamRaises(t)
    \/ OracleReturns

SpecFeedDies == Init /\ [][NextFeedDies]_vars

\* C37: the step in which a feed task ends leaves the other feed tasks and
\* the task of OracleAgent.run as they are, and the dedup map, the clients'
\* last scores and game_events untouched; a poll is made by a feed whose
\* task runs, and what it publishes differs from the pair the dedup map
\* holds for the game; OracleAgent.run ends only when every feed task has
\* ended.
C37_OnlyFailedFeedExits ==
    /\ [][\A t \in FeedTasks :
            (sched.task[t] = "running" /\ sched'.task[t] = "done") =>
               /\ \A u \in (AgentTasks \cup FeedTasks) \ {t} :
                     sched'.task[u] = sched.task[u]
               /\ sched'.main = sched.main
               /\ UNCHANGED <<seen, feed_last, game_events, oracle_hist>>
        ]_vars
    /\ [][oracle_hist'.polls # oracle_hist.polls =>
            /\ \E f \in Feeds :
                  /\ Running(TaskOfFeed(f))
                  /\ \A h \in Feeds \ {f} : feed_last'[h] = feed_last[h]
            /\ Len(oracle_hist'.published) > Len(oracle_hist.published) =>
                  LET p == oracle_hist'.published[Len(oracle_hist'.published)]
                  IN /\ seen[p[1]] # << <<p[2], p[3]>> >>
                     /\ seen'[p[1]] = << <<p[2], p[3]>> >>
                     /\ Len(game_events') = Len(game_events) + 1
        ]_vars
    /\ [](sched.task["oracle"] = "done" =>
             \A t \in FeedTasks : sched.task[t] = "done")

\* The ESPN task has ended in its stream; the SportsDataIO task runs on: its
\* 0-0 for g1 was dropped by the dedup map, which ESPN had filled, and its
\* 5-0 was published.
C37_Witness ==
    /\ sched.task["oracle-espn"] = "done"
    /\ sched.at["oracle-espn"] = "stream"
    /\ sched.task["oracle-sportsdata_io"] = "running"
    /\ sched.task["oracle"] = "running"
    /\ oracle_hist.emitted = << <<"espn", "g1", 0, 0>>,
                                <<"sportsdata_io", "g1", 0, 0>>,
                                <<"sportsdata_io", "g1", 5, 0>> >>
    /\ oracle_hist.published = << <<"g1", 0, 0>>, <<"g1", 5, 0>> >>
    /\ Len(game_events) = 2

-----------------------------------------------------------------------------

\* C38: every subscribe command the client sends names only tickers that
\* are in the subscribed set when it is sent: a ticker that was unsubscribed
\* and not subscribed again is in no command, whether the command is the
\* full set of a connect, a batch drained from the pending queue or a batch
\* scheduled on the live socket.
C38_NoSubscribeAfterUnsubscribe ==
    [][\A k \in (Len(ws_hist.sent) + 1)..Len(ws_hist'.sent) :
          ws_hist'.sent[k].tickers \subseteq ws.subscribed_tickers]_vars

-----------------------------------------------------------------------------

\* Brain registers the totals of the event's game in this step.
RegistersNow ==
    /\ BrainActs
    /\ brain.game_state[EventInHand.game_id] # "registered"
    /\ brain'.game_state[EventInHand.game_id] = "registered"

\* C39: the step in which Brain registers a game creates every entry with
\* trigger <= the event's total already_triggered and the others not; that
\* step, and every later step of the same event, publishes no totals signal
\* for the game and starts no REST fallback for one of its entries.
C39_RegisteringEventIsSilent ==
    [][(BrainActs /\ (RegistersNow \/ brain.registered_now)) =>
         LET g   == EventInHand.game_id
             T   == EventInHand.total_score
             new == (Len(signal_log) + 1)..Len(signal_log')
         IN /\ \A k \in new :
                  ~(signal_log'[k].kind = "totals" /\ signal_log'[k].game_id = g)
            /\ brain'.pc # "rest"
            /\ RegistersNow =>
                  /\ threshold_map'[g] # <<>>
                  /\ \A i \in 1..Len(threshold_map'[g]) :
                        threshold_map'[g][i].already_triggered
                           = (threshold_map'[g][i].trigger_score <= T)
      ]_vars

\* The first event of g1 comes at 5-0 and registers the game: the 5 line is
\* triggered, the 10 line is not, and no totals signal was published.
C39_Witness ==
    /\ oracle_hist.published = << <<"g1", 5, 0>> >>
    /\ game_events = <<>>
    /\ brain.pc = "get"
    /\ brain.game_state["g1"] = "registered"
    /\ Len(threshold_map["g1"]) = 2
    /\ threshold_map["g1"][1].already_triggered
    /\ ~threshold_map["g1"][2].already_triggered
    /\ TotalsSignals = {}

-----------------------------------------------------------------------------

\* Brain works on a non-final event of a game whose final event it has
\* processed before.
LateEventInHand ==
    /\ BrainActs
    /\ ~EventInHand.is_final
    /\ EventInHand.game_id \in brain.finals_seen

\* The step starts no registration, activates nothing in the gate and
\* publishes no trade signal.
Inert ==
    /\ brain'.pc \notin {"refresh", "ml_refresh", "rest"}
    /\ brain'.game_state = brain.game_state
    /\ brain'.ml_game_state = brain.ml_game_state
    /\ threshold_map' = threshold_map
    /\ moneyline_map' = moneyline_map
    /\ gate' = gate
    /\ signal_log' = signal_log
    /\ trade_signals' = trade_signals

\* C40: once Brain has processed a final event of a game, a later non-final
\* event of that game starts no registration, activates nothing in the gate
\* and publishes no trade signal.
C40_NothingAfterFinal ==
    [][LateEventInHand => Inert]_vars

\* What the code does give: a late event is inert when the game's totals and
\* moneyline were both registered when the final event arrived (the states
\* say "registered" and the final event has removed the entries).
LateEventInertWhenRegistered ==
    [][(/\ LateEventInHand
        /\ brain.game_state[EventInHand.game_id] = "registered"
        /\ brain.ml_game_state[EventInHand.game_id] = "registered"
        /\ threshold_map[EventInHand.game_id] = <<>>
        /\ moneyline_map[EventInHand.game_id] = <<>>) => Inert]_vars

=============================================================================
